---- MODULE Spec2Model ----
(***************************************************************************)
(* Model of the Python symbol extractor of refact-lsp                      *)
(* (src/ast/treesitter/parsers/python.rs).                                 *)
(*                                                                         *)
(* A syntax tree is a nested record; a node is addressed by its path, the  *)
(* sequence of (1-based) child positions from the root, so that parent()   *)
(* is the path without its last element.  The text of a node is the        *)
(* sequence of the tokens of its leaves (whitespace between tokens is      *)
(* dropped); byte offsets are counted in tokens.                           *)
(*                                                                         *)
(* The recursive walk of the parser is translated function by function     *)
(* into operators that thread a walk state `st`:                           *)
(*    st.evs   the steps the walk performs, in program order               *)
(*    st.syms  the symbol objects pushed so far, in list order             *)
(*    st.nobj  the number of symbol objects constructed so far             *)
(*    st.ok    FALSE once an unwrap() of None has panicked                 *)
(* A function's local `symbols` vector is the part of st.syms pushed since *)
(* the function was entered: every callee's result is extended into the    *)
(* caller's vector right after the call.  The state machine executes the   *)
(* steps one at a time on a heap of symbol objects, drawing guids from the *)
(* shared generator behind get_guid().                                     *)
(***************************************************************************)
EXTENDS Integers, Sequences, FiniteSets, TLC

VARIABLES
    status,     \* run -> "idle" | "running" | "done" | "panicked"
    tree,       \* run -> the syntax tree being parsed
    prog,       \* run -> the steps of parse() on that tree
    pc,         \* run -> number of steps executed
    heap,       \* run -> sequence of symbol objects (index = object id)
    result,     \* run -> the Vec<AstSymbolInstanceArc> built so far (object ids)
    root_guid,  \* run -> the parent_guid allocated by parse()
    issued,     \* run -> set of guids get_guid() returned to this run
    next_guid,  \* the shared guid generator
    call,       \* the arguments the skeleton formatter is called with
    ret         \* what the calls of the formatter returned so far, oldest first

vars == <<status, tree, prog, pc, heap, result, root_guid, issued, next_guid, call, ret>>

----------------------------------------------------------------------------
(* Bounds *)

\* Nesting depth of generated declarations around the statement catalogue.
MaxDepth == 1

----------------------------------------------------------------------------
(* Syntax trees (the tree_sitter::Node interface the parser consumes) *)

NoNode == <<0>>

Leaf(kind, tok) == [kind |-> kind, tok |-> tok, ch |-> <<>>, fld |-> <<>>]
\* an anonymous token: its kind is its text
Tok(t) == Leaf(t, t)
Id(name) == Leaf("identifier", name)
\* an inner node: children and, parallel to them, their field names ("" = none)
Nd(kind, ch, fld) == [kind |-> kind, tok |-> "", ch |-> ch, fld |-> fld]

RECURSIVE NodeAt(_, _)
NodeAt(t, p) == IF p = <<>> THEN t ELSE NodeAt(t.ch[Head(p)], Tail(p))

Kind(t, p) == NodeAt(t, p).kind
ChildCount(t, p) == Len(NodeAt(t, p).ch)
\* Node::child(i), i counted from 0; None when out of range
Child(t, p, i) == IF i >= 0 /\ i < ChildCount(t, p) THEN Append(p, i + 1) ELSE NoNode
\* Node::parent()
Parent(p) == IF p = <<>> THEN NoNode ELSE SubSeq(p, 1, Len(p) - 1)
\* the positions from i on whose field name is `name`, in order
RECURSIVE FieldPositions(_, _, _)
FieldPositions(fld, name, i) ==
    IF i > Len(fld) THEN <<>>
    ELSE IF fld[i] = name THEN <<i>> \o FieldPositions(fld, name, i + 1)
    ELSE FieldPositions(fld, name, i + 1)
\* the paths of the children of p at the given positions
ChildPaths(p, positions) == [k \in 1..Len(positions) |-> Append(p, positions[k])]
\* Node::children_by_field_name(name): the children carrying that field, in order
ChildrenByFieldName(t, p, name) ==
    ChildPaths(p, FieldPositions(NodeAt(t, p).fld, name, 1))
\* the first of a list of nodes, or None
FirstOrNone(nodes) == IF nodes = <<>> THEN NoNode ELSE Head(nodes)
\* Node::child_by_field_name(name): the first child carrying that field, or None
ChildByFieldName(t, p, name) == FirstOrNone(ChildrenByFieldName(t, p, name))

\* the tokens of a subtree, left to right
RECURSIVE Tokens(_)
RECURSIVE TokensFrom(_, _)
Tokens(n) ==
    IF n.ch = <<>> THEN (IF n.tok = "" THEN <<>> ELSE <<n.tok>>)
    ELSE TokensFrom(n.ch, 1)
\* the tokens of the subtrees ch[i], ch[i+1], ..
TokensFrom(ch, i) ==
    IF i > Len(ch) THEN <<>> ELSE Tokens(ch[i]) \o TokensFrom(ch, i + 1)

\* code.slice(node.byte_range()), as a token sequence
Text(t, p) == Tokens(NodeAt(t, p))

RECURSIVE Join(_)
Join(toks) == IF toks = <<>> THEN "" ELSE Head(toks) \o Join(Tail(toks))

\* code.slice(node.byte_range()).to_string()
TextStr(t, p) == Join(Text(t, p))

\* Node::start_byte(): the number of tokens before the node
RECURSIVE StartByte(_, _)
StartByte(t, p) ==
    IF p = <<>> THEN 0
    ELSE StartByte(t, Parent(p))
         + Len(TokensFrom(SubSeq(NodeAt(t, Parent(p)).ch, 1, p[Len(p)] - 1), 1))
EndByte(t, p) == StartByte(t, p) + Len(Text(t, p))
\* Node::range()
Range(t, p) == <<StartByte(t, p), EndByte(t, p)>>

----------------------------------------------------------------------------
(* Program constants *)

\* static PYTHON_MODULES: [&str; 203]
PYTHON_MODULES == {
    "abc", "aifc", "argparse", "array", "asynchat", "asyncio", "asyncore",
    "atexit", "audioop", "base64", "bdb", "binascii", "binhex", "bisect",
    "builtins", "bz2", "calendar", "cgi", "cgitb", "chunk", "cmath", "cmd",
    "code", "codecs", "codeop", "collections", "colorsys", "compileall",
    "concurrent", "configparser", "contextlib", "contextvars", "copy",
    "copyreg", "crypt", "csv", "ctypes", "curses", "datetime", "dbm",
    "decimal", "difflib", "dis", "distutils", "doctest", "email",
    "encodings", "ensurepip", "enum", "errno", "faulthandler", "fcntl",
    "filecmp", "fileinput", "fnmatch", "formatter", "fractions", "ftplib",
    "functools", "gc", "getopt", "getpass", "gettext", "glob", "grp", "gzip",
    "hashlib", "heapq", "hmac", "html", "http", "idlelib", "imaplib",
    "imghdr", "imp", "importlib", "inspect", "io", "ipaddress", "itertools",
    "json", "keyword", "lib2to3", "linecache", "locale", "logging", "lzma",
    "macpath", "mailbox", "mailcap", "marshal", "math", "mimetypes", "mmap",
    "modulefinder", "msilib", "msvcrt", "multiprocessing", "netrc",
    "nntplib", "numbers", "operator", "optparse", "os", "ossaudiodev",
    "parser", "pathlib", "pdb", "pickle", "pickletools", "pipes", "pkgutil",
    "platform", "plistlib", "poplib", "posix", "pprint", "profile", "pstats",
    "pty", "pwd", "py_compile", "pyclbr", "pydoc", "queue", "quopri",
    "random", "re", "readline", "reprlib", "resource", "rlcompleter",
    "runpy", "sched", "secrets", "select", "selectors", "shelve", "shlex",
    "shutil", "signal", "site", "smtpd", "smtplib", "sndhdr", "socket",
    "socketserver", "spwd", "sqlite3", "ssl", "stat", "statistics", "string",
    "stringprep", "struct", "subprocess", "sunau", "symbol", "symtable",
    "sys", "sysconfig", "syslog", "tabnanny", "tarfile", "telnetlib",
    "tempfile", "termios", "test", "textwrap", "threading", "time", "timeit",
    "tkinter", "token", "tokenize", "trace", "traceback", "tracemalloc",
    "tty", "turtle", "turtledemo", "types", "typing", "unicodedata",
    "unittest", "urllib", "uu", "uuid", "venv", "warnings", "wave",
    "weakref", "webbrowser", "winreg", "winsound", "wsgiref", "xdrlib",
    "xml", "xmlrpc", "zipapp", "zipfile", "zipimport", "zoneinfo" }

\* SPECIAL_SYMBOLS.contains(text): the texts that are substrings of "{}(),.;_|&"
SPECIAL_SYMBOLS == {
    "", "{", "}", "(", ")", ",", ".", ";", "_", "|", "&", "{}", "}(", "()",
    "),", ",.", ".;", ";_", "_|", "|&", "{}(", "}()", "(),", "),.", ",.;",
    ".;_", ";_|", "_|&", "{}()", "}(),", "(),.", "),.;", ",.;_", ".;_|",
    ";_|&", "{}(),", "}(),.", "(),.;", "),.;_", ",.;_|", ".;_|&", "{}(),.",
    "}(),.;", "(),.;_", "),.;_|", ",.;_|&", "{}(),.;", "}(),.;_", "(),.;_|",
    "),.;_|&", "{}(),.;_", "}(),.;_|", "(),.;_|&", "{}(),.;_|", "}(),.;_|&",
    "{}(),.;_|&" }

PYTHON_KEYWORDS == {
    "False", "None", "True", "and", "as", "assert", "async", "await", "break",
    "class", "continue", "def", "del", "elif", "else", "except", "finally",
    "for", "from", "global", "if", "import", "in", "is", "lambda", "nonlocal",
    "not", "or", "pass", "raise", "return", "try", "while", "with", "yield" }

\* the literal kinds of parse_type and parse_assignment
LiteralKinds == {"integer", "string", "float", "false", "true"}

----------------------------------------------------------------------------
(* Values: Option<T> is <<>> (None) or <<x>> (Some(x)) *)

None == <<>>
Some(x) == <<x>>

\* Uuid::default(), the guid of a symbol before get_guid() is assigned to it
NilGuid == 0

\* TypeDef::default()
DefaultTypeDef ==
    [name |-> None, inference_info |-> None, is_pod |-> FALSE,
     namespace |-> "", guid |-> None, nested_types |-> <<>>]

\* AstSymbolFields::default()
DefaultFields ==
    [guid |-> NilGuid, parent_guid |-> None, childs_guid |-> <<>>,
     caller_guid |-> None, name |-> "", is_error |-> FALSE,
     full_range |-> <<0, 0>>, declaration_range |-> <<0, 0>>,
     definition_range |-> <<0, 0>>]

\* r with the fields of u written over it
Upd(r, u) == [f \in DOMAIN r |-> IF f \in DOMAIN u THEN u[f] ELSE r[f]]
\* r extended by the fields of u
Ext(r, u) == [f \in (DOMAIN r) \cup (DOMAIN u) |-> IF f \in DOMAIN u THEN u[f] ELSE r[f]]

----------------------------------------------------------------------------
(* Type/Argument resolver.  A result is [panic, ty] or [panic, args]:      *)
(* panic is TRUE when an unwrap() of None was hit.                         *)

TypeOk(ty) == [panic |-> FALSE, ty |-> ty]
TypePanic == [panic |-> TRUE, ty |-> None]

\* nested_types.push(t) in front of the types of the following children
ConsTypes(r, rest) ==
    IF r.panic \/ rest.panic THEN [panic |-> TRUE, tys |-> <<>>]
    ELSE [panic |-> FALSE, tys |-> r.ty \o rest.tys]

\* "generic_type": Some(TypeDef { name: Some(name), nested_types, .. })
GenericType(name, nested) ==
    IF nested.panic THEN TypePanic
    ELSE TypeOk(Some([DefaultTypeDef EXCEPT !.name = Some(name),
                                            !.nested_types = nested.tys]))

\* "attribute": nested_types is the type of the object, when it has one
AttributeType(name, r) ==
    IF r.panic THEN TypePanic
    ELSE TypeOk(Some([DefaultTypeDef EXCEPT !.name = Some(name),
                                            !.nested_types = r.ty]))

\* faulty variant of CallType: the callee's descriptor, left as it is
CallType_callee(text, r) ==
    IF r.panic THEN TypePanic
    ELSE TypeOk(Some(IF r.ty = None THEN DefaultTypeDef ELSE r.ty[1]))

\* "call": parse_type(&function, code).unwrap_or(TypeDef::default()),
\* then dtype.inference_info = Some(text of the call)
CallType(text, r) ==
    IF r.panic THEN TypePanic
    ELSE TypeOk(Some([(IF r.ty = None THEN DefaultTypeDef ELSE r.ty[1])
                         EXCEPT !.inference_info = Some(text)]))

RECURSIVE parse_type(_, _)
\* for i in 0..type_arguments.child_count() { .. nested_types.push(t) }
RECURSIVE NestedTypes(_, _, _)
NestedTypes(t, type_arguments, i) ==
    IF i >= ChildCount(t, type_arguments) THEN [panic |-> FALSE, tys |-> <<>>]
    ELSE ConsTypes(parse_type(t, Child(t, type_arguments, i)),
                   NestedTypes(t, type_arguments, i + 1))

parse_type(t, p) ==
    LET kind == Kind(t, p)
    IN CASE kind \in {"type", "splat_type"} ->
              IF Child(t, p, 0) = NoNode THEN TypePanic
              ELSE parse_type(t, Child(t, p, 0))
         [] kind = "identifier" ->
              TypeOk(Some([DefaultTypeDef EXCEPT !.name = Some(TextStr(t, p))]))
         [] kind \in LiteralKinds ->
              TypeOk(Some([DefaultTypeDef EXCEPT
                              !.inference_info = Some(TextStr(t, p)),
                              !.is_pod = TRUE]))
         [] kind = "generic_type" ->
              IF Child(t, p, 0) = NoNode \/ Child(t, p, 1) = NoNode THEN TypePanic
              ELSE GenericType(TextStr(t, Child(t, p, 0)),
                               NestedTypes(t, Child(t, p, 1), 0))
         [] kind = "attribute" ->
              IF ChildByFieldName(t, p, "attribute") = NoNode
                 \/ ChildByFieldName(t, p, "object") = NoNode
              THEN TypePanic
              ELSE AttributeType(TextStr(t, ChildByFieldName(t, p, "attribute")),
                                 parse_type(t, ChildByFieldName(t, p, "object")))
         [] kind = "call" ->
              IF ChildByFieldName(t, p, "function") = NoNode THEN TypePanic
              ELSE CallType(TextStr(t, p),
                            parse_type(t, ChildByFieldName(t, p, "function")))
         [] OTHER -> TypeOk(None)

ArgsOk(args) == [panic |-> FALSE, args |-> args]
ArgsPanic == [panic |-> TRUE, args |-> <<>>]

\* args.extend(..) in front of the arguments of the following children
ConsArgs(r, rest) ==
    IF r.panic \/ rest.panic THEN ArgsPanic ELSE ArgsOk(r.args \o rest.args)

\* FunctionArg { name, type_: None }
NewArg(name) == [name |-> name, type_ |-> None]

RECURSIVE parse_function_arg(_, _)
\* for i in 0..parent.child_count() - 1 { args.extend(parse_function_arg(&child, code)) }
RECURSIVE TuplePatternArgs(_, _, _)
TuplePatternArgs(t, p, i) ==
    IF i >= ChildCount(t, p) - 1 THEN ArgsOk(<<>>)
    ELSE ConsArgs(parse_function_arg(t, Child(t, p, i)),
                  TuplePatternArgs(t, p, i + 1))

\* the `match kind` of parse_function_arg
MatchedArgs(t, p) ==
    LET kind == Kind(t, p)
        name == ChildByFieldName(t, p, "name")
    IN CASE kind \in {"identifier", "typed_parameter"} ->
              ArgsOk(<<NewArg(TextStr(t, p))>>)
         [] kind \in {"typed_default_parameter", "default_parameter"} ->
              IF name = NoNode THEN ArgsPanic
              ELSE IF Kind(t, name) = "identifier"
              THEN ArgsOk(<<NewArg(TextStr(t, name))>>)
              ELSE parse_function_arg(t, name)
         [] kind = "tuple_pattern" ->
              \* usize underflow of child_count() - 1 on a childless node
              IF ChildCount(t, p) = 0 THEN ArgsPanic
              ELSE TuplePatternArgs(t, p, 0)
         [] OTHER -> ArgsOk(<<>>)

\* if let Some(type_) = &mut arg.type_ { type_.inference_info = dtype.inference_info }
\* else { arg.type_ = Some(dtype) }
TypedArg(arg, dtype) ==
    IF arg.type_ # None
    THEN [arg EXCEPT !.type_ =
             Some([arg.type_[1] EXCEPT !.inference_info = dtype.inference_info])]
    ELSE [arg EXCEPT !.type_ = Some(dtype)]

\* the first `for arg in args.iter_mut()` loop, r being parse_type(&type_node, code)
TypedArgs(first, r) ==
    IF r.panic THEN ArgsPanic
    ELSE IF r.ty = None THEN first
    ELSE ArgsOk([i \in 1..Len(first.args) |-> TypedArg(first.args[i], r.ty[1])])

WithType(t, p, first) ==
    LET type_node == ChildByFieldName(t, p, "type")
    IN IF first.panic \/ first.args = <<>> \/ type_node = NoNode THEN first
       ELSE TypedArgs(first, parse_type(t, type_node))

\* the second loop: inference_info from the text of the default value
ValuedArg(arg, value_text) ==
    IF arg.type_ # None
    THEN [arg EXCEPT !.type_ =
             Some([arg.type_[1] EXCEPT !.inference_info = Some(value_text)])]
    ELSE [arg EXCEPT !.type_ =
             Some([DefaultTypeDef EXCEPT !.inference_info = Some(value_text)])]

WithValue(t, p, typed) ==
    LET value_node == ChildByFieldName(t, p, "value")
    IN IF typed.panic \/ value_node = NoNode THEN typed
       ELSE ArgsOk([i \in 1..Len(typed.args) |->
                       ValuedArg(typed.args[i], TextStr(t, value_node))])

parse_function_arg(t, p) == WithValue(t, p, WithType(t, p, MatchedArgs(t, p)))


----------------------------------------------------------------------------
(* Walk state and the steps a walk performs *)

St0 == [evs |-> <<>>, syms |-> <<>>, nobj |-> 0, ok |-> TRUE]

Emit(st, e) == IF st.ok THEN [st EXCEPT !.evs = Append(@, e)] ELSE st

\* Option::unwrap() on None
Panic(st) ==
    IF st.ok THEN [st EXCEPT !.evs = Append(@, [ev |-> "panic"]), !.ok = FALSE]
    ELSE st

\* X::default() followed by the field writes of its construction block;
\* parent_guid is cloned from the referenced holder (0: the guid parse()
\* allocated, k: the guid field of symbol object k) when the step executes
New(st, kind, pg, init) ==
    IF st.ok
    THEN [st EXCEPT !.nobj = @ + 1,
                    !.evs = Append(@, [ev |-> "new", obj |-> st.nobj + 1, pg |-> pg,
                                       sym |-> Ext(Ext(DefaultFields, [kind |-> kind]), init)])]
    ELSE st

\* faulty variant of SetGuid: the guid field keeps its default value
SetGuid_skipped(st, obj) == st

\* x.ast_fields.guid = get_guid()
SetGuid(st, obj) == Emit(st, [ev |-> "guid", obj |-> obj])

\* later writes to fields of a symbol under construction
Set(st, obj, upd) == Emit(st, [ev |-> "set", obj |-> obj, upd |-> upd])

\* x.ast_fields.caller_guid = last.read().fields().parent_guid.clone()
SetCaller(st, obj, last) == Emit(st, [ev |-> "caller", obj |-> obj, last |-> last])

\* x.ast_fields.childs_guid = get_children_guids(&x.ast_fields.guid, &symbols)
SetChilds(st, obj, symbols) ==
    Emit(st, [ev |-> "childs", obj |-> obj, symbols |-> symbols])

\* symbols.push(Arc::new(RwLock::new(Box::new(x))))
Push(st, obj) ==
    IF st.ok
    THEN [st EXCEPT !.evs = Append(@, [ev |-> "push", obj |-> obj]),
                    !.syms = Append(@, obj)]
    ELSE st

\* the local `symbols` vector of a function entered in walk state st0
Local(st0, st) == SubSeq(st.syms, Len(st0.syms) + 1, Len(st.syms))

\* s.split("."), on a token sequence whose tokens are "." or contain no dot
RECURSIVE SplitDots(_)
SplitDots(toks) ==
    IF toks = <<>> THEN <<"">>
    ELSE LET rest == SplitDots(Tail(toks))
         IN IF Head(toks) = "." THEN <<"">> \o rest
            ELSE <<Head(toks) \o Head(rest)>> \o Tail(rest)

\* .filter(|x| !x.is_empty())
RECURSIVE NonEmpty(_)
NonEmpty(segs) ==
    IF segs = <<>> THEN <<>>
    ELSE IF Head(segs) = "" THEN NonEmpty(Tail(segs))
    ELSE <<Head(segs)>> \o NonEmpty(Tail(segs))

\* s.starts_with(prefix), on token sequences
StartsWith(toks, prefix) ==
    Len(toks) >= Len(prefix) /\ SubSeq(toks, 1, Len(prefix)) = prefix

\* s.slice(n..s.len())
SliceFrom(toks, n) == SubSeq(toks, n + 1, Len(toks))

\* the node kinds parse_usages walks child by child, passing the block flag
BlockLikeKinds == {
    "expression_statement", "module", "block",
    "await", "list_splat", "yield", "list_splat_pattern",
    "tuple", "set", "list", "dictionary", "expression_list", "comparison_operator",
    "conditional_expression", "as_pattern_target", "print_statement",
    "list_comprehension", "dictionary_comprehension", "set_comprehension", "if_clause",
    "with_statement", "with_clause", "case_clause", "case_pattern", "dotted_name",
    "try_statement", "except_clause", "if_statement", "elif_clause", "else_clause" }

RECURSIVE parse_usages(_, _, _, _, _, _)
RECURSIVE parse_struct_declaration(_, _, _, _, _)
RECURSIVE parse_assignment(_, _, _, _, _)
RECURSIVE parse_function_declaration(_, _, _, _, _)
RECURSIVE find_error_usages(_, _, _, _)
RECURSIVE parse_error_usages(_, _, _, _)
RECURSIVE parse_call_expression(_, _, _, _, _)
RECURSIVE parse_import(_, _, _, _)
RECURSIVE parse_as_pattern(_, _, _, _, _, _)

\* for i in 0..parent.child_count() { symbols.extend(self.parse_usages(&child, ..)) }
RECURSIVE UsagesOfChildren(_, _, _, _, _, _, _)
UsagesOfChildren(st, t, p, i, pg, is_error, from_block) ==
    IF i >= ChildCount(t, p) THEN st
    ELSE UsagesOfChildren(
             parse_usages(st, t, Child(t, p, i), pg, is_error, from_block),
             t, p, i + 1, pg, is_error, from_block)

\* usage.ast_fields of an identifier or attribute usage
UsageFields(t, p, name, is_error) ==
    [name |-> name, full_range |-> Range(t, p), is_error |-> is_error]

\* let x = parent.child_by_field_name(name).unwrap();
\* symbols.extend(self.parse_usages(&x, code, path, parent_guid, is_error, false));
UsagesOfField(st, t, p, name, pg, is_error) ==
    LET x == ChildByFieldName(t, p, name)
    IN IF x = NoNode THEN Panic(st)
       ELSE parse_usages(st, t, x, pg, is_error, FALSE)

\* if let Some(x) = parent.child_by_field_name(name) { symbols.extend(parse_usages(&x ..)) }
UsagesOfOptField(st, t, p, name, pg, is_error) ==
    LET x == ChildByFieldName(t, p, name)
    IN IF x = NoNode THEN st
       ELSE parse_usages(st, t, x, pg, is_error, FALSE)

\* faulty variant of WithCaller: caller_guid is never written
WithCaller_never(a, b, obj) == b

\* if let Some(last) = usages.last() {
\*     x.ast_fields.caller_guid = last.read().fields().parent_guid.clone(); }
\* where usages are the symbols pushed between walk states a and b
WithCaller(a, b, obj) ==
    LET usages == Local(a, b)
    IN IF usages # <<>> /\ b.ok THEN SetCaller(b, obj, usages[Len(usages)]) ELSE b

\* let usages = self.parse_usages(&node, code, path, parent_guid, is_error, false);
\* followed by the caller_guid rule above and symbols.extend(usages)
UsagesWithCaller(st, t, node, pg, is_error, obj) ==
    WithCaller(st, parse_usages(st, t, node, pg, is_error, FALSE), obj)

\* faulty variant of ObjectThenPush: the usage is pushed before its object is walked
ObjectThenPush_early(st, t, p, usage, pg, is_error) ==
    IF ChildByFieldName(t, p, "object") = NoNode THEN Panic(st)
    ELSE UsagesWithCaller(Push(st, usage), t, ChildByFieldName(t, p, "object"),
                          pg, is_error, usage)

\* the rest of the `attribute` arm of parse_usages, from the object on
ObjectThenPush(st, t, p, usage, pg, is_error) ==
    LET object_node == ChildByFieldName(t, p, "object")
    IN IF object_node = NoNode THEN Panic(st)
       ELSE Push(UsagesWithCaller(st, t, object_node, pg, is_error, usage), usage)

\* if let Some(alternative) = .. { if let Some(body) = alternative.child_by_field_name("body")
WhileAlternative(st, t, p, pg, is_error) ==
    LET alternative == ChildByFieldName(t, p, "alternative")
    IN IF alternative = NoNode THEN st
       ELSE UsagesOfOptField(st, t, alternative, "body", pg, is_error)

parse_usages(st, t, p, pg, is_error, from_block) ==
    IF ~st.ok THEN st ELSE
    LET kind == Kind(t, p)
    IN CASE kind \in BlockLikeKinds ->
              LET is_block ==
                      \/ kind \in {"module", "block"}
                      \/ /\ Parent(p) # NoNode
                         /\ Kind(t, Parent(p)) \in {"module", "block"}
              IN UsagesOfChildren(st, t, p, 0, pg, is_error, is_block)
         [] kind = "with_item" ->
              UsagesOfField(st, t, p, "value", pg, is_error)
         [] kind = "class_definition" ->
              parse_struct_declaration(st, t, p, pg, is_error)
         [] kind = "function_definition" ->
              parse_function_declaration(st, t, p, pg, is_error)
         [] kind = "decorated_definition" ->
              LET definition == ChildByFieldName(t, p, "definition")
              IN IF definition = NoNode THEN st
                 ELSE CASE Kind(t, definition) = "class_definition" ->
                             parse_struct_declaration(st, t, definition, pg, is_error)
                        [] Kind(t, definition) = "function_definition" ->
                             parse_function_declaration(st, t, definition, pg, is_error)
                        [] OTHER -> st
         [] kind = "as_pattern" ->
              LET value == Child(t, p, 0)
                  alias == ChildByFieldName(t, p, "alias")
              IN IF value = NoNode THEN Panic(st)
                 ELSE IF alias = NoNode THEN st
                 ELSE IF Child(t, alias, 0) = NoNode THEN Panic(st)
                 ELSE parse_as_pattern(st, t, p, <<Child(t, alias, 0)>>, pg, is_error)
         [] kind \in {"not_operator", "unary_operator"} ->
              UsagesOfField(st, t, p, "argument", pg, is_error)
         [] kind \in {"boolean_operator", "binary_operator", "for_in_clause",
                      "augmented_assignment"} ->
              UsagesOfField(UsagesOfField(st, t, p, "left", pg, is_error),
                            t, p, "right", pg, is_error)
         [] kind = "pair" ->
              UsagesOfField(UsagesOfField(st, t, p, "key", pg, is_error),
                            t, p, "value", pg, is_error)
         [] kind = "identifier" ->
              Push(SetGuid(New(st, "VariableUsage", pg,
                               UsageFields(t, p, TextStr(t, p), is_error)),
                           st.nobj + 1),
                   st.nobj + 1)
         [] kind = "attribute" ->
              LET attribute == ChildByFieldName(t, p, "attribute")
              IN IF attribute = NoNode THEN Panic(st)
                 ELSE ObjectThenPush(
                          SetGuid(New(st, "VariableUsage", pg,
                                      UsageFields(t, p, TextStr(t, attribute), is_error)),
                                  st.nobj + 1),
                          t, p, st.nobj + 1, pg, is_error)
         [] kind \in {"assignment", "for_statement"} ->
              parse_assignment(st, t, p, pg, is_error)
         [] kind = "while_statement" ->
              WhileAlternative(
                  UsagesOfField(UsagesOfField(st, t, p, "condition", pg, is_error),
                                t, p, "body", pg, is_error),
                  t, p, pg, is_error)
         [] kind = "match_statement" ->
              UsagesOfField(UsagesOfField(st, t, p, "subject", pg, is_error),
                            t, p, "body", pg, is_error)
         [] kind = "call" ->
              parse_call_expression(st, t, p, pg, is_error)
         [] kind = "lambda" ->
              parse_function_declaration(st, t, p, pg, is_error)
         [] kind \in {"comment", "string"} ->
              IF kind # "string" \/ from_block
              THEN Push(SetGuid(New(st, "CommentDefinition", pg,
                                    [full_range |-> Range(t, p), is_error |-> FALSE]),
                                st.nobj + 1),
                        st.nobj + 1)
              ELSE st
         [] kind \in {"import_from_statement", "import_statement"} ->
              parse_import(st, t, p, pg)
         [] kind = "ERROR" ->
              parse_error_usages(st, t, p, pg)
         [] OTHER ->
              UsagesOfChildren(st, t, p, 0, pg, is_error, FALSE)

\* the `as_pattern` arm of parse_usages: the candidates queue over the alias
parse_as_pattern(st, t, p, candidates, pg, is_error) ==
    IF ~st.ok \/ candidates = <<>> THEN st ELSE
    LET child == Head(candidates)
        rest == Tail(candidates)
        text == TextStr(t, child)
        value == Child(t, p, 0)
    IN IF text \in SPECIAL_SYMBOLS \/ text = "self"
       THEN parse_as_pattern(st, t, p, rest, pg, is_error)
       ELSE CASE Kind(t, child) = "identifier" ->
                   parse_as_pattern(
                       Push(SetGuid(New(st, "VariableDefinition", pg,
                                        [full_range |-> Range(t, p), name |-> text,
                                         is_error |-> is_error,
                                         type_ |-> [DefaultTypeDef EXCEPT
                                            !.inference_info = Some(TextStr(t, value))]]),
                                    st.nobj + 1),
                            st.nobj + 1),
                       t, p, rest, pg, is_error)
              [] Kind(t, child) \in {"list", "set", "tuple"} ->
                   parse_as_pattern(st, t, p,
                       rest \o [i \in 1..ChildCount(t, child) |-> Child(t, child, i - 1)],
                       pg, is_error)
              [] OTHER ->
                   parse_as_pattern(parse_usages(st, t, child, pg, is_error, FALSE),
                                    t, p, rest, pg, is_error)

\* faulty variant of IsClassField: the walk does not stop at a function
RECURSIVE IsClassField_outer(_, _)
IsClassField_outer(t, parent_mb) ==
    IF parent_mb = NoNode THEN FALSE
    ELSE IF Kind(t, parent_mb) = "class_definition" THEN TRUE
    ELSE IsClassField_outer(t, Parent(parent_mb))

\* the ancestor walk of parse_assignment: a class_definition is met before
\* any function_definition
RECURSIVE IsClassField(_, _)
IsClassField(t, parent_mb) ==
    IF parent_mb = NoNode THEN FALSE
    ELSE CASE Kind(t, parent_mb) = "class_definition" -> TRUE
           [] Kind(t, parent_mb) = "function_definition" -> FALSE
           [] OTHER -> IsClassField(t, Parent(parent_mb))

\* (0..n.child_count()).map(|i| n.child(i))
\*     .filter(|node| !SPECIAL_SYMBOLS.contains(node.unwrap().kind())).collect()
RECURSIVE PatternElements(_, _, _)
PatternElements(t, n, i) ==
    IF i >= ChildCount(t, n) THEN <<>>
    ELSE IF Kind(t, Child(t, n, i)) \in SPECIAL_SYMBOLS
    THEN PatternElements(t, n, i + 1)
    ELSE <<Child(t, n, i)>> \o PatternElements(t, n, i + 1)

\* decl.type_ after `if let Some(dtype) = parse_type(&type_node, code) { decl.type_ = dtype }`
DeclaredType(dtype) == IF dtype.ty = None THEN DefaultTypeDef ELSE dtype.ty[1]

\* parse_type of the optional type node of a candidate
TypeOfOpt(t, type_mb) ==
    IF type_mb = NoNode THEN TypeOk(None) ELSE parse_type(t, type_mb)

\* the writes `if let Some(right) = right_mb` makes to decl.type_
InferenceOf(t, right_mb) ==
    IF right_mb = NoNode THEN <<>>
    ELSE [inference_info |-> Some(TextStr(t, right_mb)),
          is_pod |-> Kind(t, right_mb) \in LiteralKinds]

\* the "identifier" arm: fields (with parent_guid and guid), the declaration
\* around them, its type, and the push
Declare(st, kind, pg, fields, dtype, inference) ==
    IF dtype.panic
    THEN Panic(SetGuid(New(st, kind, pg, Ext(fields, [type_ |-> DefaultTypeDef])),
                       st.nobj + 1))
    ELSE Push(SetGuid(New(st, kind, pg,
                          Ext(fields, [type_ |-> Upd(DeclaredType(dtype), inference)])),
                      st.nobj + 1),
              st.nobj + 1)

\* for i in 0..lefts.len() { candidates.push_back((lefts[i], None, r)) }
PairCandidates(lefts, rights, right_mb, right_for_all) ==
    [i \in 1..Len(lefts) |->
        <<lefts[i], NoNode, IF right_for_all THEN right_mb ELSE rights[i]>>]

\* let mut rights = vec![right_mb]; if let Some(right) = right_mb { rights = .. }
RightElements(t, right_mb) ==
    IF right_mb = NoNode THEN <<right_mb>> ELSE PatternElements(t, right_mb, 0)

\* the `while !candidates.is_empty()` loop of parse_assignment; a candidate
\* is <<left_mb, type_mb, right_mb>>
RECURSIVE AssignCandidates(_, _, _, _, _, _, _, _)
\* the pattern arm: right_for_all is set once the lengths differ, and stays set
PatternCandidates(st, t, p, rest, lefts, rights, right_mb, right_for_all, is_class_field, pg, is_error) ==
    AssignCandidates(st, t, p,
        rest \o PairCandidates(lefts, rights, right_mb,
                               right_for_all \/ Len(lefts) # Len(rights)),
        right_for_all \/ Len(lefts) # Len(rights),
        is_class_field, pg, is_error)

AssignCandidates(st, t, p, candidates, right_for_all, is_class_field, pg, is_error) ==
    IF ~st.ok \/ candidates = <<>> THEN st ELSE
    LET left == Head(candidates)[1]
        type_mb == Head(candidates)[2]
        right_mb == Head(candidates)[3]
        rest == Tail(candidates)
    IN IF left = NoNode
       THEN AssignCandidates(st, t, p, rest, right_for_all, is_class_field, pg, is_error)
       ELSE IF TextStr(t, left) \in SPECIAL_SYMBOLS \/ TextStr(t, left) = "self"
       THEN AssignCandidates(st, t, p, rest, right_for_all, is_class_field, pg, is_error)
       ELSE CASE Kind(t, left) = "identifier" ->
                   AssignCandidates(
                       Declare(st,
                               IF is_class_field THEN "ClassFieldDeclaration"
                               ELSE "VariableDefinition",
                               pg,
                               [full_range |-> Range(t, p), name |-> TextStr(t, left),
                                is_error |-> is_error],
                               TypeOfOpt(t, type_mb),
                               IF is_class_field THEN <<>> ELSE InferenceOf(t, right_mb)),
                       t, p, rest, right_for_all, is_class_field, pg, is_error)
              [] Kind(t, left) = "attribute" ->
                   AssignCandidates(parse_usages(st, t, left, pg, is_error, FALSE),
                       t, p, rest, right_for_all, is_class_field, pg, is_error)
              [] Kind(t, left) \in {"list_pattern", "tuple_pattern", "pattern_list"} ->
                   PatternCandidates(st, t, p, rest,
                       PatternElements(t, left, 0), RightElements(t, right_mb),
                       right_mb, right_for_all, is_class_field, pg, is_error)
              [] Kind(t, left) = "list_splat_pattern" ->
                   AssignCandidates(st, t, p,
                       rest \o << <<Child(t, left, 0), type_mb, right_mb>> >>,
                       right_for_all, is_class_field, pg, is_error)
              [] OTHER ->
                   AssignCandidates(st, t, p, rest, right_for_all, is_class_field,
                                    pg, is_error)

parse_assignment(st, t, p, pg, is_error) ==
    IF ~st.ok THEN st ELSE
    AssignCandidates(
        UsagesOfOptField(UsagesOfOptField(st, t, p, "right", pg, is_error),
                         t, p, "body", pg, is_error),
        t, p,
        << <<ChildByFieldName(t, p, "left"), ChildByFieldName(t, p, "type"),
             ChildByFieldName(t, p, "right")>> >>,
        FALSE, IsClassField(t, Parent(p)), pg, is_error)

\* base_path_component of an import: the module path, leading dots of a
\* relative import kept as one "." or ".." component
BasePathComponent(t, p) ==
    LET module_name == ChildByFieldName(t, p, "module_name")
        base_path == Text(t, module_name)
    IN IF module_name = NoNode THEN <<>>
       ELSE IF Kind(t, module_name) = "relative_import"
       THEN IF StartsWith(base_path, <<".", ".">>)
            THEN <<"..">> \o NonEmpty(SplitDots(SliceFrom(base_path, 2)))
            ELSE IF StartsWith(base_path, <<".">>)
            THEN <<".">> \o NonEmpty(SplitDots(SliceFrom(base_path, 1)))
            ELSE NonEmpty(SplitDots(base_path))
       ELSE NonEmpty(SplitDots(base_path))

\* import_type of a named import, from the first path component
ClassifyImport(path_components) ==
    IF path_components = <<>> THEN "Unknown"
    ELSE IF path_components[1] \in PYTHON_MODULES THEN "System"
    ELSE IF path_components[1] \in {".", ".."} THEN "UserModule"
    ELSE "Unknown"

\* path_components of one imported name
ImportPath(t, child) ==
    CASE Kind(t, child) = "dotted_name" -> SplitDots(Text(t, child))
      [] Kind(t, child) = "aliased_import" ->
           IF ChildByFieldName(t, child, "name") = NoNode THEN <<>>
           ELSE SplitDots(Text(t, ChildByFieldName(t, child, "name")))
      [] OTHER -> <<>>

\* alias of one imported name
ImportAlias(t, child) ==
    IF Kind(t, child) = "aliased_import" /\ ChildByFieldName(t, child, "alias") # NoNode
    THEN Some(TextStr(t, ChildByFieldName(t, child, "alias")))
    ELSE None

\* def_local after its guid: path, classification, name (last().unwrap()), alias, push
NamedImport(st, def_local, path_components, alias) ==
    IF path_components = <<>> THEN Panic(st)
    ELSE Push(Set(st, def_local,
                  [path_components |-> path_components,
                   import_type |-> ClassifyImport(path_components),
                   name |-> path_components[Len(path_components)],
                   alias |-> alias]),
              def_local)

\* the body of `for child in parent.children_by_field_name("name", ..)`
RECURSIVE ImportNames(_, _, _, _, _)
ImportNames(st, t, names, pg, def) ==
    IF ~st.ok \/ names = <<>> THEN st ELSE
    ImportNames(
        NamedImport(SetGuid(New(st, "ImportDeclaration", pg, def), st.nobj + 1),
                    st.nobj + 1,
                    def.path_components \o ImportPath(t, Head(names)),
                    ImportAlias(t, Head(names))),
        t, Tail(names), pg, def)

\* ImportDeclaration::default() with the fields written before the name loop
ImportDef(t, p) ==
    [full_range |-> Range(t, p),
     path_components |-> BasePathComponent(t, p),
     import_type |-> "Unknown", alias |-> None]

\* the import_from_statement | import_statement arm of parse_usages
parse_import(st, t, p, pg) ==
    IF ~st.ok THEN st ELSE
    IF ChildByFieldName(t, p, "name") # NoNode
    THEN ImportNames(st, t, ChildrenByFieldName(t, p, "name"), pg, ImportDef(t, p))
    ELSE Push(SetGuid(New(st, "ImportDeclaration", pg, ImportDef(t, p)),
                      st.nobj + 1),
              st.nobj + 1)

\* the enclosing decorated_definition, when there is one, else the node
DecoratedNode(t, p) ==
    IF Parent(p) # NoNode /\ Kind(t, Parent(p)) = "decorated_definition"
    THEN Parent(p)
    ELSE p
\* decl.ast_fields.full_range once the decorator check is done
DecoratedRange(t, p) == Range(t, DecoratedNode(t, p))

\* for i in 0..superclasses.child_count() { parse_type(&child, code) .. push }
RECURSIVE InheritedTypes(_, _, _)
InheritedTypes(t, superclasses, i) ==
    IF i >= ChildCount(t, superclasses) THEN [panic |-> FALSE, tys |-> <<>>]
    ELSE ConsTypes(parse_type(t, Child(t, superclasses, i)),
                   InheritedTypes(t, superclasses, i + 1))

\* x.ast_fields.childs_guid = get_children_guids(&x.ast_fields.guid, &symbols);
\* symbols.push(..); symbols       (st0: the walk state on entry of the function)
FinishDeclaration(st0, st, decl) ==
    Push(SetChilds(st, decl, Local(st0, st)), decl)

\* parse_struct_declaration: the decorated range and the name
StructName(st, t, p, decl) ==
    LET name_node == ChildByFieldName(t, p, "name")
    IN IF name_node = NoNode
       THEN Set(st, decl, [full_range |-> DecoratedRange(t, p)])
       ELSE Set(st, decl,
                [full_range |-> DecoratedRange(t, p),
                 name |-> TextStr(t, name_node),
                 declaration_range |-> <<StartByte(t, DecoratedNode(t, p)),
                                         EndByte(t, name_node)>>])

\* the superclasses branch, the loop over the superclasses having given `inherited`
Inherit(st, t, p, superclasses, decl, inherited) ==
    IF inherited.panic THEN Panic(st)
    ELSE Set(find_error_usages(
                 Set(st, decl, [inherited_types |-> inherited.tys]),
                 t, superclasses, decl),
             decl,
             [declaration_range |->
                 <<StartByte(t, DecoratedNode(t, p)), EndByte(t, superclasses)>>])

\* parse_struct_declaration: the superclasses
StructSuperclasses(st, t, p, decl) ==
    LET superclasses == ChildByFieldName(t, p, "superclasses")
    IN IF superclasses = NoNode THEN st
       ELSE Inherit(st, t, p, superclasses, decl, InheritedTypes(t, superclasses, 0))

\* faulty variant of StructBody: the class is appended before its body is walked
StructBody_pushed(st, t, p, decl, is_error) ==
    IF ChildByFieldName(t, p, "body") = NoNode THEN st
    ELSE Set(parse_usages(Push(st, decl), t, ChildByFieldName(t, p, "body"),
                          decl, is_error, TRUE),
             decl, [definition_range |-> Range(t, ChildByFieldName(t, p, "body"))])

\* parse_struct_declaration: the body
StructBody(st, t, p, decl, is_error) ==
    LET body == ChildByFieldName(t, p, "body")
    IN IF body = NoNode THEN st
       ELSE Set(parse_usages(st, t, body, decl, is_error, TRUE),
                decl, [definition_range |-> Range(t, body)])

parse_struct_declaration(st, t, p, pg, is_error) ==
    IF ~st.ok THEN st ELSE
    LET decl == st.nobj + 1
    IN FinishDeclaration(st,
         StructBody(
           StructSuperclasses(
             StructName(
               find_error_usages(
                 SetGuid(New(st, "StructDeclaration", pg,
                             [full_range |-> Range(t, p), is_error |-> is_error,
                              inherited_types |-> <<>>]),
                         decl),
                 t, p, decl),
               t, p, decl),
             t, p, decl),
           t, p, decl, is_error),
         decl)

\* for idx in 0..params_len { function_args.extend(parse_function_arg(&child, code)) }
RECURSIVE FunctionArgs(_, _, _)
FunctionArgs(t, parameters_node, idx) ==
    IF idx >= ChildCount(t, parameters_node) THEN [panic |-> FALSE, args |-> <<>>]
    ELSE ConsArgs(parse_function_arg(t, Child(t, parameters_node, idx)),
                  FunctionArgs(t, parameters_node, idx + 1))

\* parse_function_declaration: the name
FunctionName(st, t, p, decl) ==
    LET name_node == ChildByFieldName(t, p, "name")
    IN IF name_node = NoNode THEN st
       ELSE Set(st, decl, [name |-> TextStr(t, name_node)])

\* decl.args = function_args
WithArgs(st, decl, function_args) ==
    IF function_args.panic THEN Panic(st)
    ELSE Set(st, decl, [args |-> function_args.args])

\* parse_function_declaration: the parameters
FunctionParameters(st, t, p, decl) ==
    LET parameters_node == ChildByFieldName(t, p, "parameters")
    IN IF parameters_node = NoNode THEN st
       ELSE WithArgs(find_error_usages(st, t, parameters_node, decl), decl,
                     FunctionArgs(t, parameters_node, 0))

\* decl.return_type = parse_type(&return_type, code)
WithReturnType(st, decl, rtype) ==
    IF rtype.panic THEN Panic(st) ELSE Set(st, decl, [return_type |-> rtype.ty])

\* parse_function_declaration: the return type
FunctionReturnType(st, t, p, decl) ==
    LET return_type == ChildByFieldName(t, p, "return_type")
    IN IF return_type = NoNode THEN st
       ELSE find_error_usages(WithReturnType(st, decl, parse_type(t, return_type)),
                              t, return_type, decl)

\* the node whose end decl_end_byte holds when the body is reached
DeclEndNode(t, p) ==
    IF ChildByFieldName(t, p, "return_type") # NoNode
    THEN ChildByFieldName(t, p, "return_type")
    ELSE IF ChildByFieldName(t, p, "parameters") # NoNode
    THEN ChildByFieldName(t, p, "parameters")
    ELSE p

\* parse_function_declaration: the ranges and the body
FunctionBody(st, t, p, decl, is_error) ==
    LET body_node == ChildByFieldName(t, p, "body")
    IN IF body_node = NoNode
       THEN Set(st, decl, [declaration_range |-> DecoratedRange(t, p)])
       ELSE parse_usages(
                Set(st, decl,
                    [definition_range |-> Range(t, body_node),
                     declaration_range |-> <<StartByte(t, DecoratedNode(t, p)),
                                             EndByte(t, DeclEndNode(t, p))>>]),
                t, body_node, decl, is_error, TRUE)

parse_function_declaration(st, t, p, pg, is_error) ==
    IF ~st.ok THEN st ELSE
    LET decl == st.nobj + 1
    IN FinishDeclaration(st,
         FunctionBody(
           FunctionReturnType(
             \* decl.ast_fields.guid = get_guid(), only here: the two scans
             \* for error usages below are handed &decl.ast_fields.guid before
             SetGuid(
               FunctionParameters(
                 FunctionName(
                   find_error_usages(
                     New(st, "FunctionDeclaration", pg,
                         [full_range |-> DecoratedRange(t, p), is_error |-> is_error,
                          args |-> <<>>, return_type |-> None]),
                     t, p, decl),
                   t, p, decl),
                 t, p, decl),
               decl),
             t, p, decl),
           t, p, decl, is_error),
         decl)

RECURSIVE ErrorUsagesOfChildren(_, _, _, _, _, _)
\* for each child i.. of parent: parse_error_usages on the ERROR children
\* only (find_error_usages) or on every child (parse_error_usages)
ErrorUsagesOfChildren(st, t, p, i, pg, only_errors) ==
    IF i >= ChildCount(t, p) THEN st
    ELSE ErrorUsagesOfChildren(
             IF only_errors /\ Kind(t, Child(t, p, i)) # "ERROR" THEN st
             ELSE parse_error_usages(st, t, Child(t, p, i), pg),
             t, p, i + 1, pg, only_errors)

find_error_usages(st, t, p, pg) ==
    IF ~st.ok THEN st ELSE ErrorUsagesOfChildren(st, t, p, 0, pg, TRUE)

\* the rest of the `attribute` arm of parse_error_usages, from the object on
ErrorObjectThenPush(st, t, p, usage, pg) ==
    LET object_node == ChildByFieldName(t, p, "object")
    IN IF object_node = NoNode THEN Panic(st)
       ELSE Push(WithCaller(st, parse_error_usages(st, t, object_node, pg), usage),
                 usage)

parse_error_usages(st, t, p, pg) ==
    IF ~st.ok THEN st ELSE
    CASE Kind(t, p) = "identifier" ->
           IF TextStr(t, p) \in PYTHON_KEYWORDS THEN st
           ELSE Push(SetGuid(New(st, "VariableUsage", pg,
                                 UsageFields(t, p, TextStr(t, p), TRUE)),
                             st.nobj + 1),
                     st.nobj + 1)
      [] Kind(t, p) = "attribute" ->
           LET attribute == ChildByFieldName(t, p, "attribute")
           IN IF attribute = NoNode THEN Panic(st)
              ELSE ErrorObjectThenPush(
                       SetGuid(New(st, "VariableUsage", pg,
                                   UsageFields(t, p, TextStr(t, attribute), TRUE)),
                               st.nobj + 1),
                       t, p, st.nobj + 1, pg)
      [] OTHER -> ErrorUsagesOfChildren(st, t, p, 0, pg, FALSE)

\* the loop over the children of the argument list of a call
RECURSIVE CallArguments(_, _, _, _, _, _)
CallArguments(st, t, arguments_node, i, decl, is_error) ==
    IF i >= ChildCount(t, arguments_node) THEN st
    ELSE CallArguments(
             IF TextStr(t, Child(t, arguments_node, i)) \in SPECIAL_SYMBOLS THEN st
             ELSE parse_usages(st, t, Child(t, arguments_node, i), decl, is_error, FALSE),
             t, arguments_node, i + 1, decl, is_error)

\* parse_call_expression: the arguments
CallArgumentList(st, t, p, decl, is_error) ==
    LET arguments_node == ChildByFieldName(t, p, "arguments")
    IN IF arguments_node = NoNode THEN Panic(st)
       ELSE find_error_usages(
                CallArguments(st, t, arguments_node, 0, decl, is_error),
                t, arguments_node, decl)

\* parse_call_expression: the callee, when it is an attribute
CallAttributeName(st, t, function_node, decl) ==
    LET attribute == ChildByFieldName(t, function_node, "attribute")
    IN IF attribute = NoNode THEN Panic(st)
       ELSE Set(st, decl, [name |-> TextStr(t, attribute)])

\* parse_call_expression: the callee
CallFunction(st, t, p, decl, pg, is_error) ==
    LET function_node == ChildByFieldName(t, p, "function")
        kind == Kind(t, function_node)
        object == ChildByFieldName(t, function_node, "object")
    IN IF function_node = NoNode THEN Panic(st)
       ELSE CASE kind = "identifier" ->
                   Set(st, decl, [name |-> TextStr(t, function_node)])
              [] kind = "attribute" ->
                   IF object = NoNode THEN Panic(st)
                   ELSE CallAttributeName(
                            UsagesWithCaller(st, t, object, pg, is_error, decl),
                            t, function_node, decl)
              [] OTHER ->
                   UsagesWithCaller(st, t, function_node, pg, is_error, decl)

parse_call_expression(st, t, p, pg, is_error) ==
    IF ~st.ok THEN st ELSE
    LET decl == st.nobj + 1
    IN FinishDeclaration(st,
         CallFunction(
           CallArgumentList(
             find_error_usages(
               SetGuid(New(st, "FunctionCall", pg,
                           [full_range |-> Range(t, p), is_error |-> is_error]),
                       decl),
               t, p, decl),
             t, p, decl, is_error),
           t, p, decl, pg, is_error),
         decl)

\* AstLanguageParser::parse: the steps of one extraction of tree t
parse(t) ==
    parse_usages(Emit(St0, [ev |-> "root"]), t, <<>>, 0, FALSE, TRUE)

----------------------------------------------------------------------------
(* Execution of the steps on the heap of symbol objects *)

\* the guid generator issues values that carry no order: the n-th value
\* issued is a fixed scrambling of n (never Uuid::default())
GuidModulus == 101
GuidFactor == 37
get_guid(n) == (n * GuidFactor) % GuidModulus

\* get_children_guids(parent_guid, children): the guids of the children
\* whose parent_guid is parent_guid, in list order
RECURSIVE get_children_guids(_, _)
get_children_guids(parent_guid, children) ==
    IF children = <<>> THEN <<>>
    ELSE IF Head(children).parent_guid = Some(parent_guid)
    THEN <<Head(children).guid>> \o get_children_guids(parent_guid, Tail(children))
    ELSE get_children_guids(parent_guid, Tail(children))

\* parent_guid.clone() through the reference a callee was given: holder 0
\* is the local of parse(), holder k the guid field of symbol object k
HolderGuid(h, root, pg) == IF pg = 0 THEN root ELSE h[pg].guid

\* faulty variant of ChildsGuid: every collected symbol is taken for a child
ChildsGuid_all(h, obj, symbols) == [i \in 1..Len(symbols) |-> h[symbols[i]].guid]

\* faulty variant of ChildsGuid: the children are put in the order of their guids
ChildsGuid_ordered(h, obj, symbols) ==
    IF Len(get_children_guids(h[obj].guid, [i \in 1..Len(symbols) |-> h[symbols[i]]])) >= 2
       /\ Head(get_children_guids(h[obj].guid, [i \in 1..Len(symbols) |-> h[symbols[i]]]))
          > get_children_guids(h[obj].guid, [i \in 1..Len(symbols) |-> h[symbols[i]]])[2]
    THEN <<get_children_guids(h[obj].guid, [i \in 1..Len(symbols) |-> h[symbols[i]]])[2],
           Head(get_children_guids(h[obj].guid, [i \in 1..Len(symbols) |-> h[symbols[i]]]))>>
         \o Tail(Tail(get_children_guids(h[obj].guid, [i \in 1..Len(symbols) |-> h[symbols[i]]])))
    ELSE get_children_guids(h[obj].guid, [i \in 1..Len(symbols) |-> h[symbols[i]]])

\* decl.ast_fields.childs_guid = get_children_guids(&decl.ast_fields.guid, &symbols)
ChildsGuid(h, obj, symbols) ==
    get_children_guids(h[obj].guid, [i \in 1..Len(symbols) |-> h[symbols[i]]])

\* faulty variant of CallerGuid: the guid of the last symbol itself
CallerGuid_own(h, last) == Some(h[last].guid)

\* usage.ast_fields.caller_guid = last.read().fields().parent_guid.clone()
CallerGuid(h, last) == h[last].parent_guid

Runs == {1, 2}

NextStep(r) == prog[r][pc[r] + 1]
AtStep(r, ev) ==
    /\ status[r] = "running"
    /\ pc[r] < Len(prog[r])
    /\ NextStep(r).ev = ev
Advance(r) == pc' = [pc EXCEPT ![r] = @ + 1]

\* no PythonParser::parse has been called
Idle ==
    /\ status = [r \in Runs |-> "idle"]
    /\ tree = [r \in Runs |-> Nd("module", <<>>, <<>>)]
    /\ prog = [r \in Runs |-> <<>>]
    /\ pc = [r \in Runs |-> 0]
    /\ heap = [r \in Runs |-> <<>>]
    /\ result = [r \in Runs |-> <<>>]
    /\ root_guid = [r \in Runs |-> NilGuid]
    /\ issued = [r \in Runs |-> {}]
    /\ next_guid = 1

\* the formatter is not called while extractions are observed
NoCall == call = <<>> /\ ret = <<>>

Init == Idle /\ NoCall

\* parse() is called on the tree of some source text
Start(r, forest) ==
    /\ status[r] = "idle"
    /\ \E t \in forest :
         /\ tree' = [tree EXCEPT ![r] = t]
         /\ prog' = [prog EXCEPT ![r] = parse(t).evs]
    /\ status' = [status EXCEPT ![r] = "running"]
    /\ UNCHANGED <<pc, heap, result, root_guid, issued, next_guid, call, ret>>

\* let parent_guid = get_guid();
AllocRoot(r) ==
    /\ AtStep(r, "root")
    /\ next_guid < GuidModulus
    /\ root_guid' = [root_guid EXCEPT ![r] = get_guid(next_guid)]
    /\ issued' = [issued EXCEPT ![r] = @ \cup {get_guid(next_guid)}]
    /\ next_guid' = next_guid + 1
    /\ Advance(r)
    /\ UNCHANGED <<status, tree, prog, heap, result, call, ret>>

\* a symbol object is constructed and its first fields written
NewSymbol(r) ==
    /\ AtStep(r, "new")
    /\ heap' = [heap EXCEPT ![r] =
                  Append(@, [NextStep(r).sym EXCEPT !.parent_guid =
                                Some(HolderGuid(heap[r], root_guid[r], NextStep(r).pg))])]
    /\ Advance(r)
    /\ UNCHANGED <<status, tree, prog, result, root_guid, issued, next_guid, call, ret>>

\* x.ast_fields.guid = get_guid();
AssignGuid(r) ==
    /\ AtStep(r, "guid")
    /\ next_guid < GuidModulus
    /\ heap' = [heap EXCEPT ![r][NextStep(r).obj].guid = get_guid(next_guid)]
    /\ issued' = [issued EXCEPT ![r] = @ \cup {get_guid(next_guid)}]
    /\ next_guid' = next_guid + 1
    /\ Advance(r)
    /\ UNCHANGED <<status, tree, prog, result, root_guid, call, ret>>

\* later field writes (name, ranges, types, arguments, path components)
WriteFields(r) ==
    /\ AtStep(r, "set")
    /\ heap' = [heap EXCEPT ![r][NextStep(r).obj] = Upd(@, NextStep(r).upd)]
    /\ Advance(r)
    /\ UNCHANGED <<status, tree, prog, result, root_guid, issued, next_guid, call, ret>>

WriteCaller(r) ==
    /\ AtStep(r, "caller")
    /\ heap' = [heap EXCEPT ![r][NextStep(r).obj].caller_guid =
                  CallerGuid(heap[r], NextStep(r).last)]
    /\ Advance(r)
    /\ UNCHANGED <<status, tree, prog, result, root_guid, issued, next_guid, call, ret>>

WriteChilds(r) ==
    /\ AtStep(r, "childs")
    /\ heap' = [heap EXCEPT ![r][NextStep(r).obj].childs_guid =
                  ChildsGuid(heap[r], NextStep(r).obj, NextStep(r).symbols)]
    /\ Advance(r)
    /\ UNCHANGED <<status, tree, prog, result, root_guid, issued, next_guid, call, ret>>

\* symbols.push(..): the symbol joins the list that parse() returns
PushSymbol(r) ==
    /\ AtStep(r, "push")
    /\ result' = [result EXCEPT ![r] = Append(@, NextStep(r).obj)]
    /\ Advance(r)
    /\ UNCHANGED <<status, tree, prog, heap, root_guid, issued, next_guid, call, ret>>

\* an unwrap() of None: parse() unwinds and returns nothing
PanicStep(r) ==
    /\ AtStep(r, "panic")
    /\ status' = [status EXCEPT ![r] = "panicked"]
    /\ Advance(r)
    /\ UNCHANGED <<tree, prog, heap, result, root_guid, issued, next_guid, call, ret>>

\* parse() returns `symbols`
Finish(r) ==
    /\ status[r] = "running"
    /\ pc[r] = Len(prog[r])
    /\ status' = [status EXCEPT ![r] = "done"]
    /\ UNCHANGED <<tree, prog, pc, heap, result, root_guid, issued, next_guid, call, ret>>

----------------------------------------------------------------------------
(* Skeleton formatter (PythonSkeletonFormatter)                            *)
(*                                                                         *)
(* A String is the sequence of its characters; a SymbolInformation is a    *)
(* record carrying, besides guid, symbol_type and the rows and start byte  *)
(* of full_range, the two slices of the source text that the formatter     *)
(* asks for.  A HashMap is a function; get() of a key outside its domain   *)
(* is None.                                                                *)

\* char::is_whitespace, on the characters that occur
Whitespace == {" ", "\t", "\n", "\r"}

\* str::trim_start
RECURSIVE TrimStart(_)
TrimStart(s) ==
    IF s # <<>> /\ Head(s) \in Whitespace THEN TrimStart(Tail(s)) ELSE s

\* str::split("\n"), `cur` being the piece read so far
RECURSIVE SplitFrom(_, _)
SplitFrom(s, cur) ==
    IF s = <<>> THEN <<cur>>
    ELSE IF Head(s) = "\n" THEN <<cur>> \o SplitFrom(Tail(s), <<>>)
    ELSE SplitFrom(Tail(s), Append(cur, Head(s)))

SplitNewline(s) == SplitFrom(s, <<>>)

\* a line without the "\r" of its "\r\n" ending
StripCr(line) ==
    IF line # <<>> /\ line[Len(line)] = "\r" THEN SubSeq(line, 1, Len(line) - 1)
    ELSE line

\* str::lines: the pieces between line endings ("\n" or "\r\n"); the text
\* after the last ending is a line unless it is empty
Lines(s) ==
    LET parts == SplitNewline(s)
        n == Len(parts)
    IN [i \in 1..(n - 1) |-> StripCr(parts[i])]
       \o (IF parts[n] = <<>> THEN <<>> ELSE <<parts[n]>>)

\* x.replace("\t", "    ")
RECURSIVE ExpandTabs(_)
ExpandTabs(s) ==
    IF s = <<>> THEN <<>>
    ELSE (IF Head(s) = "\t" THEN <<" ", " ", " ", " ">> ELSE <<Head(s)>>)
         \o ExpandTabs(Tail(s))

\* " ".repeat(n)
Spaces(n) == [i \in 1..n |-> " "]

\* lines.join("\n")
RECURSIVE JoinLines(_)
JoinLines(lines) ==
    IF lines = <<>> THEN <<>>
    ELSE IF Len(lines) = 1 THEN lines[1]
    ELSE lines[1] \o <<"\n">> \o JoinLines(Tail(lines))

\* the placeholder "..."
Ellipsis == <<".", ".", ".">>

\* symbol.get_declaration_content(text): the text of the declaration header
get_declaration_content(symbol) == symbol.declaration_content

\* symbol.get_content(text): the text of the whole construct
get_content(symbol) == symbol.content

\* self.preprocess_content(lines): the lines of the returned text
preprocess_content(lines) == lines

\* what a call returns, or that it panicked
Returns(op, value) == [op |-> op, panic |-> FALSE, value |-> value]
Panics(op) == [op |-> op, panic |-> TRUE, value |-> <<>>]

\* the loop over the lines of a function child's declaration
RECURSIVE FunctionLines(_, _)
FunctionLines(res_line, lines) ==
    IF lines = <<>> THEN res_line
    ELSE FunctionLines(res_line \o <<" ", " ">> \o TrimStart(Head(lines)) \o <<"\n">>,
                       Tail(lines))

\* faulty variant of ChildSkeleton: a field child is followed by a placeholder too
ChildSkeleton_every(res_line, child_symbol) ==
    CASE child_symbol.symbol_type = "FunctionDeclaration" ->
           FunctionLines(res_line, Lines(get_declaration_content(child_symbol)))
               \o <<" ", " ", " ", " ">> \o Ellipsis \o <<"\n">>
      [] child_symbol.symbol_type = "ClassFieldDeclaration" ->
           res_line \o <<" ", " ">> \o get_content(child_symbol) \o <<"\n">>
               \o <<" ", " ", " ", " ">> \o Ellipsis \o <<"\n">>
      [] OTHER -> res_line

\* match child_symbol.symbol_type { .. }: res_line after one child
ChildSkeleton(res_line, child_symbol) ==
    CASE child_symbol.symbol_type = "FunctionDeclaration" ->
           FunctionLines(res_line, Lines(get_declaration_content(child_symbol)))
               \o <<" ", " ", " ", " ">> \o Ellipsis \o <<"\n">>
      [] child_symbol.symbol_type = "ClassFieldDeclaration" ->
           res_line \o <<" ", " ">> \o get_content(child_symbol) \o <<"\n">>
      [] OTHER -> res_line

\* for child in children { let child_symbol = guid_to_info.get(&child).unwrap(); .. }
RECURSIVE SkeletonOfChildren(_, _, _)
SkeletonOfChildren(res_line, children, guid_to_info) ==
    IF children = <<>> THEN Returns("make_skeleton", res_line)
    ELSE IF Head(children) \notin DOMAIN guid_to_info THEN Panics("make_skeleton")
    ELSE SkeletonOfChildren(ChildSkeleton(res_line, guid_to_info[Head(children)]),
                            Tail(children), guid_to_info)

\* faulty variant of EmptySkeleton: the header alone
EmptySkeleton_bare(res_line) == Returns("make_skeleton", res_line)

\* return format!("{res_line}\n  ...")
EmptySkeleton(res_line) ==
    Returns("make_skeleton", res_line \o <<"\n", " ", " ">> \o Ellipsis)

make_skeleton(symbol, guid_to_children, guid_to_info) ==
    IF symbol.guid \notin DOMAIN guid_to_children THEN Panics("make_skeleton")
    ELSE IF guid_to_children[symbol.guid] = <<>>
    THEN EmptySkeleton(get_declaration_content(symbol))
    ELSE SkeletonOfChildren(get_declaration_content(symbol) \o <<"\n">>,
                            guid_to_children[symbol.guid], guid_to_info)

\* children.iter().filter_map(|guid| guid_to_info.get(guid)).collect()
RECURSIVE KnownSymbols(_, _)
KnownSymbols(children, guid_to_info) ==
    IF children = <<>> THEN <<>>
    ELSE (IF Head(children) \in DOMAIN guid_to_info
          THEN <<guid_to_info[Head(children)]>> ELSE <<>>)
         \o KnownSymbols(Tail(children), guid_to_info)

\* faulty variant of SortByStartByte: the children keep their list order
SortByStartByte_unsorted(symbols) == symbols

\* x put behind the symbols of a sorted list that do not start after it
RECURSIVE InsertByStartByte(_, _)
InsertByStartByte(sorted, x) ==
    IF sorted = <<>> THEN <<x>>
    ELSE IF sorted[Len(sorted)].start_byte <= x.start_byte THEN Append(sorted, x)
    ELSE Append(InsertByStartByte(SubSeq(sorted, 1, Len(sorted) - 1), x),
                sorted[Len(sorted)])

\* all_symbols.sort_by(|a, b| a.full_range.start_byte.cmp(&b.full_range.start_byte)):
\* a stable sort
RECURSIVE SortByStartByte(_)
SortByStartByte(symbols) ==
    IF symbols = <<>> THEN <<>>
    ELSE InsertByStartByte(SortByStartByte(SubSeq(symbols, 1, Len(symbols) - 1)),
                           symbols[Len(symbols)])

\* for sym in all_symbols { if sym.symbol_type != CommentDefinition { break; } .. }
RECURSIVE LeadingComments(_, _)
LeadingComments(all_symbols, acc) ==
    IF all_symbols = <<>> \/ Head(all_symbols).symbol_type # "CommentDefinition" THEN acc
    ELSE LeadingComments(Tail(all_symbols),
             [row |-> Head(all_symbols).end_row,
              res_line |-> acc.res_line \o SplitNewline(get_content(Head(all_symbols)))])

\* symbol.get_declaration_content(text).unwrap().split("\n")
\*     .map(|x| x.to_string().replace("\t", "    ")).collect()
ContentLines(symbol) ==
    [i \in 1..Len(SplitNewline(get_declaration_content(symbol))) |->
        ExpandTabs(SplitNewline(get_declaration_content(symbol))[i])]

\* faulty variant of IntentOf: the header is taken to start its line
IntentOf_none(first) == 0

\* first.len() - first.trim_start().len()
IntentOf(first) == Len(first) - Len(TrimStart(first))

\* (declaration, (symbol.full_range.start_point.row, row))
Declaration(symbol, res_line, row) ==
    Returns("get_declaration_with_comments",
            [text |-> JoinLines(preprocess_content(res_line)),
             rows |-> <<symbol.start_row, row>>])

\* the branch of a symbol that is no function, after the loop over the comments
CommentedDeclaration(symbol, content_lines, comments) ==
    IF comments.res_line = <<>>
    THEN Returns("get_declaration_with_comments", [text |-> <<>>, rows |-> <<0, 0>>])
    ELSE Declaration(symbol,
             content_lines \o comments.res_line
                 \o <<Spaces(IntentOf(content_lines[1]) + 4) \o Ellipsis>>,
             comments.row)

get_declaration_with_comments(symbol, guid_to_children, guid_to_info) ==
    IF symbol.guid \notin DOMAIN guid_to_children
    THEN Returns("get_declaration_with_comments", [text |-> <<>>, rows |-> <<0, 0>>])
    ELSE IF symbol.symbol_type = "FunctionDeclaration"
    THEN Declaration(symbol, SplitNewline(get_content(symbol)), symbol.end_row)
    ELSE CommentedDeclaration(symbol, ContentLines(symbol),
             LeadingComments(
                 SortByStartByte(KnownSymbols(guid_to_children[symbol.guid], guid_to_info)),
                 [row |-> symbol.start_row, res_line |-> <<>>]))

----------------------------------------------------------------------------
(* Calls of the formatter *)

\* Longest list of children a symbol is given, and the number of calls made
\* with the same arguments.
MaxChildren == 3
MaxCalls == 2

SymbolInfo(guid, symbol_type, declaration_content, content, start_byte, start_row, end_row) ==
    [guid |-> guid, symbol_type |-> symbol_type,
     declaration_content |-> declaration_content, content |-> content,
     start_byte |-> start_byte, start_row |-> start_row, end_row |-> end_row]

\* the declaration headers of the symbol that is rendered:
\* `c:`, indented by two spaces, indented by a tab, and over two lines
Headers == {
    <<"c", ":">>,
    <<" ", " ", "c", ":">>,
    <<"\t", "c", ":">>,
    <<" ", "c", "(", "\n", " ", " ", ")", ":">>
}

\* the symbol that is rendered, of the class or of the function kind
RenderedSymbols ==
    {SymbolInfo(10, symbol_type, header, header \o <<"\n", " ", "p">>, 0, 0, 8) :
        symbol_type \in {"StructDeclaration", "FunctionDeclaration"},
        header \in Headers}

\* the guid -> symbol map of the index: the rendered symbol and five symbols
\* that can be its children
\*   11  # a                 a comment on row 1
\*   12  # b, # c            a comment on rows 2 and 3
\*   13  def f( / a):        a method, declaration over two indented lines
\*   14  x=1                 a field
\*   15  u                   a usage in the header, before every comment
GuidToInfo(symbol) ==
    [g \in 10..15 |->
        CASE g = 10 -> symbol
          [] g = 11 -> SymbolInfo(11, "CommentDefinition", <<"#", "a">>, <<"#", "a">>, 2, 1, 1)
          [] g = 12 -> SymbolInfo(12, "CommentDefinition", <<"#", "b", "\n", "#", "c">>,
                                  <<"#", "b", "\n", "#", "c">>, 4, 2, 3)
          [] g = 13 -> SymbolInfo(13, "FunctionDeclaration",
                                  <<" ", " ", "f", "(", "\n", "\t", " ", "a", ")", ":", "\n">>,
                                  <<" ", " ", "f", "(", "\n", "\t", " ", "a", ")", ":", "\n",
                                    " ", " ", " ", " ", "p">>, 9, 5, 7)
          [] g = 14 -> SymbolInfo(14, "ClassFieldDeclaration", <<"x">>, <<"x", "=", "1">>,
                                  7, 4, 4)
          [] g = 15 -> SymbolInfo(15, "VariableUsage", <<"u">>, <<"u">>, 1, 0, 0)]

\* the guids a list of children is made of: 16 is the guid of a symbol that
\* the guid -> symbol map does not hold
ChildGuids == 11..16

\* the lists of children: no guid twice
ChildLists ==
    {s \in UNION {[1..n -> ChildGuids] : n \in 0..MaxChildren} :
        \A i, j \in 1..Len(s) : i # j => s[i] # s[j]}

\* the guid -> children maps of the index: with or without an entry of the symbol
GuidToChildren == {<<>>} \cup {[g \in {10} |-> s] : s \in ChildLists}

SkeletonCalls ==
    {[symbol |-> symbol, guid_to_children |-> children,
      guid_to_info |-> GuidToInfo(symbol)] :
        symbol \in RenderedSymbols, children \in GuidToChildren}

\* no call panicked so far, and another one is made
CanCall == Len(ret) < MaxCalls /\ \A i \in 1..Len(ret) : ~ret[i].panic


----------------------------------------------------------------------------
(* Scratchpad factories (scratchpads/mod.rs)                               *)
(*                                                                         *)
(* A Result is [ok, err, scratchpad]: Ok(scratchpad) or Err(err), err a    *)
(* message in pieces.  Beside it a return records what the call did on its *)
(* way: whether the tokenizer was asked for, and which scratchpad type was *)
(* constructed, if any.  Loading the tokenizer and applying the patch are  *)
(* done by other modules; whether they succeed is given with the call.     *)

\* format!("This rust binary doesn't have {what} scratchpad \"{}\" compiled in", scratchpad_name)
NotCompiledIn(what, scratchpad_name) ==
    <<"This rust binary doesn't have ", what, " scratchpad \"", scratchpad_name,
      "\" compiled in">>

\* the Err of cached_tokenizers::cached_tokenizer and of apply_model_adaptation_patch
TokenizerError == <<"tokenizer could not be loaded">>
PatchError == <<"patch could not be applied">>

\* Box::new(X::new(..)): a scratchpad the patch was not yet applied to
NewScratchpad(type, order) == [type |-> type, order |-> order, patched |-> FALSE]

\* return Err(err), `tokenizer` telling whether the tokenizer was asked for
\* and `constructed` the type of the scratchpad built before, if any
Failed(op, err, tokenizer, constructed) ==
    Returns(op, [ok |-> FALSE, err |-> err, scratchpad |-> None,
                 tokenizer |-> tokenizer, constructed |-> constructed])

\* result.apply_model_adaptation_patch(scratchpad_patch).await?; Ok(result)
ApplyPatch(op, scratchpad, patch_ok) ==
    IF ~patch_ok THEN Failed(op, PatchError, TRUE, Some(scratchpad.type))
    ELSE Returns(op, [ok |-> TRUE, err |-> <<>>,
                      scratchpad |-> Some([scratchpad EXCEPT !.patched = TRUE]),
                      tokenizer |-> TRUE, constructed |-> Some(scratchpad.type)])

\* cached_tokenizer(..).await? in front of Box::new(X::new(tokenizer_arc, ..))
WithTokenizer(op, type, order, tokenizer_ok, patch_ok) ==
    IF ~tokenizer_ok THEN Failed(op, TokenizerError, TRUE, None)
    ELSE ApplyPatch(op, NewScratchpad(type, order), patch_ok)

create_code_completion_scratchpad(scratchpad_name, tokenizer_ok, patch_ok) ==
    IF ~tokenizer_ok
    THEN Failed("create_code_completion_scratchpad", TokenizerError, TRUE, None)
    ELSE IF scratchpad_name = "FIM-PSM"
    THEN ApplyPatch("create_code_completion_scratchpad",
                    NewScratchpad("SingleFileFIM", "PSM"), patch_ok)
    ELSE IF scratchpad_name = "FIM-SPM"
    THEN ApplyPatch("create_code_completion_scratchpad",
                    NewScratchpad("SingleFileFIM", "SPM"), patch_ok)
    ELSE Failed("create_code_completion_scratchpad",
                NotCompiledIn("code completion", scratchpad_name), TRUE, None)

create_chat_scratchpad(scratchpad_name, tokenizer_ok, patch_ok) ==
    IF scratchpad_name = "CHAT-GENERIC"
    THEN WithTokenizer("create_chat_scratchpad", "GenericChatScratchpad", "",
                       tokenizer_ok, patch_ok)
    ELSE IF scratchpad_name = "CHAT-LLAMA2"
    THEN WithTokenizer("create_chat_scratchpad", "ChatLlama2", "", tokenizer_ok, patch_ok)
    ELSE IF scratchpad_name = "PASSTHROUGH"
    THEN WithTokenizer("create_chat_scratchpad", "ChatPassthrough", "",
                       tokenizer_ok, patch_ok)
    ELSE Failed("create_chat_scratchpad", NotCompiledIn("chat", scratchpad_name),
                FALSE, None)

\* the scratchpad names a caller asks for: the five compiled in, and two others
ScratchpadNames ==
    {"FIM-PSM", "FIM-SPM", "CHAT-GENERIC", "CHAT-LLAMA2", "PASSTHROUGH", "FIM-XYZ", ""}

\* the arguments of a call, with what the tokenizer cache and the patch will answer
ScratchpadCalls ==
    {[scratchpad_name |-> name, tokenizer_ok |-> t, patch_ok |-> p] :
        name \in ScratchpadNames, t \in BOOLEAN, p \in BOOLEAN}


----------------------------------------------------------------------------
(* Syntax trees of Python sources, as tree-sitter-python shapes them *)

NoFields(ch) == [i \in 1..Len(ch) |-> ""]
Plain(kind, ch) == Nd(kind, ch, NoFields(ch))
IntLit(n) == Leaf("integer", n)
Str(s) == Leaf("string", s)
Module(stmts) == Plain("module", stmts)
Block(stmts) == Plain("block", stmts)
ExprStmt(e) == Plain("expression_statement", <<e>>)
Err(ch) == Plain("ERROR", ch)
Attr(object, name) ==
    Nd("attribute", <<object, Tok("."), Id(name)>>, <<"object", "", "attribute">>)
Call(function, arguments) ==
    Nd("call", <<function, arguments>>, <<"function", "arguments">>)
Args(items) == Plain("argument_list", <<Tok("(")>> \o items \o <<Tok(")")>>)
Assign(left, right) ==
    Nd("assignment", <<left, Tok("="), right>>, <<"left", "", "right">>)
Params(items) == Plain("parameters", <<Tok("(")>> \o items \o <<Tok(")")>>)
FuncDef(name, parameters, body) ==
    Nd("function_definition",
       <<Tok("def"), Id(name), parameters, Tok(":"), Block(body)>>,
       <<"", "name", "parameters", "", "body">>)
ClassDef(name, body) ==
    Nd("class_definition", <<Tok("class"), Id(name), Tok(":"), Block(body)>>,
       <<"", "name", "", "body">>)
ClassDefWith(name, superclasses, body) ==
    Nd("class_definition",
       <<Tok("class"), Id(name), superclasses, Tok(":"), Block(body)>>,
       <<"", "name", "superclasses", "", "body">>)
Decorated(decorator, definition) ==
    Nd("decorated_definition",
       <<Plain("decorator", <<Tok("@"), decorator>>), definition>>,
       <<"", "definition">>)
DottedName(toks) == Plain("dotted_name", toks)
Dots(n) == Plain("import_prefix", [i \in 1..n |-> Tok(".")])
ImportFrom(module_name, names) ==
    Nd("import_from_statement",
       <<Tok("from"), module_name, Tok("import")>> \o names,
       <<"", "module_name", "">> \o [i \in 1..Len(names) |->
             IF names[i].kind \in {"dotted_name", "aliased_import"} THEN "name" ELSE ""])
Import(names) ==
    Nd("import_statement", <<Tok("import")>> \o names,
       <<"">> \o [i \in 1..Len(names) |->
             IF names[i].kind \in {"dotted_name", "aliased_import"} THEN "name" ELSE ""])
Aliased(name, alias) ==
    Nd("aliased_import", <<name, Tok("as"), Id(alias)>>, <<"name", "", "alias">>)

\* statements that also occur nested in the generated declarations
SimpleStatements == {
    \* x
    ExprStmt(Id("x")),
    \* obj.field
    ExprStmt(Attr(Id("obj"), "field")),
    \* foo(a, b)
    ExprStmt(Call(Id("foo"), Args(<<Id("a"), Tok(","), Id("b")>>))),
    \* obj.m(a)
    ExprStmt(Call(Attr(Id("obj"), "m"), Args(<<Id("a")>>))),
    \* x = 1
    ExprStmt(Assign(Id("x"), IntLit("1"))),
    \* "doc"
    ExprStmt(Str("\"doc\"")),
    \* # note
    Leaf("comment", "#note"),
    \* import os
    Import(<<DottedName(<<Id("os")>>)>>),
    \* a broken line: `y await o.f $`
    Err(<<Id("y"), Id("await"), Attr(Id("o"), "f"), Tok("$")>>),
    \* x = 1 z     (the stray `z` is an ERROR child of the assignment)
    ExprStmt(Nd("assignment", <<Id("x"), Tok("="), IntLit("1"), Err(<<Id("z")>>)>>,
                <<"left", "", "right", "">>)),
    \* not x
    ExprStmt(Nd("not_operator", <<Tok("not"), Id("x")>>, <<"", "argument">>))
}

\* statements that occur at module level only
ModuleStatements == {
    \* from os import path
    ImportFrom(DottedName(<<Id("os")>>), <<DottedName(<<Id("path")>>)>>),
    \* from os import *
    ImportFrom(DottedName(<<Id("os")>>), <<Plain("wildcard_import", <<Tok("*")>>)>>),
    \* from mylib import *
    ImportFrom(DottedName(<<Id("mylib")>>), <<Plain("wildcard_import", <<Tok("*")>>)>>),
    \* from . import x
    ImportFrom(Plain("relative_import", <<Dots(1)>>), <<DottedName(<<Id("x")>>)>>),
    \* from . import *
    ImportFrom(Plain("relative_import", <<Dots(1)>>),
               <<Plain("wildcard_import", <<Tok("*")>>)>>),
    \* from .os import x, y as z
    ImportFrom(Plain("relative_import", <<Dots(1), DottedName(<<Id("os")>>)>>),
               <<DottedName(<<Id("x")>>), Tok(","),
                 Aliased(DottedName(<<Id("y")>>), "z")>>),
    \* from ..pkg.sub import a.b
    ImportFrom(Plain("relative_import",
                     <<Dots(2), DottedName(<<Id("pkg"), Tok("."), Id("sub")>>)>>),
               <<DottedName(<<Id("a"), Tok("."), Id("b")>>)>>),
    \* from .. import x
    ImportFrom(Plain("relative_import", <<Dots(2)>>), <<DottedName(<<Id("x")>>)>>),
    \* from ...pkg import x
    ImportFrom(Plain("relative_import", <<Dots(3), DottedName(<<Id("pkg")>>)>>),
               <<DottedName(<<Id("x")>>)>>),
    \* import os.path, numpy as np
    Import(<<DottedName(<<Id("os"), Tok("."), Id("path")>>), Tok(","),
             Aliased(DottedName(<<Id("numpy")>>), "np")>>),
    \* from mylib import x
    ImportFrom(DottedName(<<Id("mylib")>>), <<DottedName(<<Id("x")>>)>>),
    \* foo(bar(a), o.p)
    ExprStmt(Call(Id("foo"),
                  Args(<<Call(Id("bar"), Args(<<Id("a")>>)), Tok(","),
                         Attr(Id("o"), "p")>>))),
    \* a.b.c
    ExprStmt(Attr(Attr(Id("a"), "b"), "c")),
    \* "s".upper
    ExprStmt(Attr(Str("\"s\""), "upper")),
    \* f()()
    ExprStmt(Call(Call(Id("f"), Args(<<>>)), Args(<<>>))),
    \* "s".join(x)
    ExprStmt(Call(Attr(Str("\"s\""), "join"), Args(<<Id("x")>>))),
    \* foo(a $ b)     (the stray `$ b` is an ERROR child of the argument list)
    ExprStmt(Call(Id("foo"), Args(<<Id("a"), Err(<<Tok("$"), Id("b")>>)>>))),
    \* class A: class B: def m(self): self.v = w
    ClassDef("A", <<ClassDef("B", <<FuncDef("m", Params(<<Id("self")>>),
        <<ExprStmt(Assign(Attr(Id("self"), "v"), Id("w")))>>)>>)>>),
    \* if "s": x
    Nd("if_statement", <<Tok("if"), Str("\"s\""), Tok(":"), Block(<<ExprStmt(Id("x"))>>)>>,
       <<"", "condition", "", "consequence">>),
    \* lambda: "s"
    ExprStmt(Nd("lambda", <<Tok("lambda"), Tok(":"), Str("\"s\"")>>, <<"", "", "body">>)),
    \* def f(a: int = 1, (b, c)=d) -> T: return a
    Nd("function_definition",
       <<Tok("def"), Id("f"),
         Params(<<Nd("typed_default_parameter",
                     <<Id("a"), Tok(":"), Plain("type", <<Id("int")>>), Tok("="), IntLit("1")>>,
                     <<"name", "", "type", "", "value">>),
                  Tok(","),
                  Nd("default_parameter",
                     <<Plain("tuple_pattern",
                             <<Tok("("), Id("b"), Tok(","), Id("c"), Tok(")")>>),
                       Tok("="), Id("d")>>,
                     <<"name", "", "value">>)>>),
         Tok("->"), Plain("type", <<Id("T")>>), Tok(":"),
         Block(<<Plain("return_statement", <<Tok("return"), Id("a")>>)>>)>>,
       <<"", "name", "parameters", "", "return_type", "", "body">>),
    \* while x y: z    (the stray `y` is an ERROR child of the while statement)
    Nd("while_statement",
       <<Tok("while"), Id("x"), Err(<<Id("y")>>), Tok(":"), Block(<<ExprStmt(Id("z"))>>)>>,
       <<"", "condition", "", "", "body">>),
    \* with open(p) as g: g
    Plain("with_statement",
          <<Tok("with"),
            Plain("with_clause",
                  <<Nd("with_item",
                       <<Nd("as_pattern",
                            <<Call(Id("open"), Args(<<Id("p")>>)), Tok("as"),
                              Plain("as_pattern_target", <<Id("g")>>)>>,
                            <<"", "", "alias">>)>>,
                       <<"value">>)>>),
            Tok(":"), Block(<<ExprStmt(Id("g"))>>)>>),
    \* a, b = f()
    ExprStmt(Assign(Plain("pattern_list", <<Id("a"), Tok(","), Id("b")>>),
                    Call(Id("f"), Args(<<>>)))),
    \* (a, b) = (1, 2)
    ExprStmt(Assign(Plain("tuple_pattern",
                          <<Tok("("), Id("a"), Tok(","), Id("b"), Tok(")")>>),
                    Plain("tuple",
                          <<Tok("("), IntLit("1"), Tok(","), IntLit("2"), Tok(")")>>))),
    \* def h(a: int): a
    FuncDef("h", Params(<<Nd("typed_parameter",
                             <<Id("a"), Tok(":"), Plain("type", <<Id("int")>>)>>,
                             <<"", "", "type">>)>>),
            <<ExprStmt(Id("a"))>>),
    \* o.m(a.b $ c.d)    (`$ c.d` is an ERROR child of the argument list)
    ExprStmt(Call(Attr(Id("o"), "m"),
                  Args(<<Attr(Id("a"), "b"), Err(<<Tok("$"), Attr(Id("c"), "d")>>)>>))),
    \* f(_)
    ExprStmt(Call(Id("f"), Args(<<Id("_")>>))),
    \* _ = 1
    ExprStmt(Assign(Id("_"), IntLit("1"))),
    \* for i in xs: i
    Nd("for_statement",
       <<Tok("for"), Id("i"), Tok("in"), Id("xs"), Tok(":"), Block(<<ExprStmt(Id("i"))>>)>>,
       <<"", "left", "", "right", "", "body">>),
    \* class A: for i in xs: i
    ClassDef("A", <<Nd("for_statement",
       <<Tok("for"), Id("i"), Tok("in"), Id("xs"), Tok(":"), Block(<<ExprStmt(Id("i"))>>)>>,
       <<"", "left", "", "right", "", "body">>)>>),
    \* class A: def m(): y = 1
    ClassDef("A", <<FuncDef("m", Params(<<>>), <<ExprStmt(Assign(Id("y"), IntLit("1")))>>)>>),
    \* (a, b), (c, d) = x, (1, 2)
    ExprStmt(Assign(
        Plain("pattern_list",
              <<Plain("tuple_pattern", <<Tok("("), Id("a"), Tok(","), Id("b"), Tok(")")>>),
                Tok(","),
                Plain("tuple_pattern", <<Tok("("), Id("c"), Tok(","), Id("d"), Tok(")")>>)>>),
        Plain("expression_list",
              <<Id("x"), Tok(","),
                Plain("tuple", <<Tok("("), IntLit("1"), Tok(","), IntLit("2"), Tok(")")>>)>>))),
    \* (a, b), (c, d) = (3, 4), (1, 2)
    ExprStmt(Assign(
        Plain("pattern_list",
              <<Plain("tuple_pattern", <<Tok("("), Id("a"), Tok(","), Id("b"), Tok(")")>>),
                Tok(","),
                Plain("tuple_pattern", <<Tok("("), Id("c"), Tok(","), Id("d"), Tok(")")>>)>>),
        Plain("expression_list",
              <<Plain("tuple", <<Tok("("), IntLit("3"), Tok(","), IntLit("4"), Tok(")")>>),
                Tok(","),
                Plain("tuple", <<Tok("("), IntLit("1"), Tok(","), IntLit("2"), Tok(")")>>)>>))),
    \* a, *rest = xs
    ExprStmt(Assign(Plain("pattern_list",
                          <<Id("a"), Tok(","),
                            Plain("list_splat_pattern", <<Tok("*"), Id("rest")>>)>>),
                    Id("xs"))),
    \* a, b, c = some_call()
    ExprStmt(Assign(Plain("pattern_list",
                          <<Id("a"), Tok(","), Id("b"), Tok(","), Id("c")>>),
                    Call(Id("some_call"), Args(<<>>))))
}

\* trees of broken sources in which a node lacks a child its grammar rule has
BrokenStatements == {
    \* not          (no operand)
    ExprStmt(Nd("not_operator", <<Tok("not")>>, <<"">>)),
    \* x.           (no attribute name)
    ExprStmt(Nd("attribute", <<Id("x"), Tok(".")>>, <<"object", "">>)),
    \* a +          (no right operand)
    ExprStmt(Nd("binary_operator", <<Id("a"), Tok("+")>>, <<"left", "">>)),
    \* while x      (no body)
    Nd("while_statement", <<Tok("while"), Id("x")>>, <<"", "condition">>),
    \* def f(       (no body: guarded by the parser)
    Nd("function_definition", <<Tok("def"), Id("f"), Params(<<>>)>>,
       <<"", "name", "parameters">>)
}

\* declarations generated around a statement s
Wrap(s) == {
    \* def f(a): s
    FuncDef("f", Params(<<Id("a")>>), <<s>>),
    \* def g(a $ e) ? : s    (stray tokens inside the parameters and the header)
    Nd("function_definition",
       <<Tok("def"), Id("g"), Params(<<Id("a"), Err(<<Tok("$"), Id("e")>>)>>),
         Err(<<Tok("?"), Id("h")>>), Tok(":"), Block(<<s>>)>>,
       <<"", "name", "parameters", "", "", "body">>),
    \* class C(Base): s
    ClassDefWith("C", Args(<<Id("Base")>>), <<s>>),
    \* if c: s
    Nd("if_statement", <<Tok("if"), Id("c"), Tok(":"), Block(<<s>>)>>,
       <<"", "condition", "", "consequence">>),
    \* @dec def d(): s
    Decorated(Id("dec"), FuncDef("d", Params(<<>>), <<s>>))
}

RECURSIVE Statements(_)
Statements(depth) ==
    IF depth = 0 THEN SimpleStatements
    ELSE LET inner == Statements(depth - 1)
         IN inner \cup UNION {Wrap(s) : s \in inner}

\* the expressions that stand as the return type of a function
TypeExpressions == {
    \* T, 1, None, a | b
    Id("T"), IntLit("1"), Leaf("none", "None"),
    Nd("binary_operator", <<Id("a"), Tok("|"), Id("b")>>, <<"left", "operator", "right">>),
    \* List[int]
    Plain("generic_type",
          <<Id("List"),
            Plain("type_parameter",
                  <<Tok("["), Plain("type", <<Id("int")>>), Tok("]")>>)>>),
    \* m.T
    Attr(Id("m"), "T"),
    \* f(x), None(x), 1(x), m.f(x)
    Call(Id("f"), Args(<<Id("x")>>)),
    Call(Leaf("none", "None"), Args(<<Id("x")>>)),
    Call(IntLit("1"), Args(<<Id("x")>>)),
    Call(Attr(Id("m"), "f"), Args(<<Id("x")>>))
}

\* def r() -> <type>: a
TypedFunctions ==
    {Nd("function_definition",
        <<Tok("def"), Id("r"), Params(<<>>), Tok("->"), Plain("type", <<ty>>), Tok(":"),
          Block(<<ExprStmt(Id("a"))>>)>>,
        <<"", "name", "parameters", "", "return_type", "", "body">>) :
     ty \in TypeExpressions}

\* modules of two statements
TwoStatementModules == {
    \* from ..pkg import x
    \* from ...pkg import x
    Module(<<ImportFrom(Plain("relative_import", <<Dots(2), DottedName(<<Id("pkg")>>)>>),
                        <<DottedName(<<Id("x")>>)>>),
             ImportFrom(Plain("relative_import", <<Dots(3), DottedName(<<Id("pkg")>>)>>),
                        <<DottedName(<<Id("x")>>)>>)>>),
    \* from .pkg import x
    \* from ..pkg import x
    Module(<<ImportFrom(Plain("relative_import", <<Dots(1), DottedName(<<Id("pkg")>>)>>),
                        <<DottedName(<<Id("x")>>)>>),
             ImportFrom(Plain("relative_import", <<Dots(2), DottedName(<<Id("pkg")>>)>>),
                        <<DottedName(<<Id("x")>>)>>)>>)
}

\* the trees a single extraction is run on
Forest ==
    {Module(<<s>>) : s \in Statements(MaxDepth) \cup ModuleStatements \cup BrokenStatements}
        \cup {Module(<<s>>) : s \in TypedFunctions}
        \cup TwoStatementModules

\* the trees two concurrent extractions are run on
ConcurrentForest == {
    Module(<<ExprStmt(Attr(Id("obj"), "field"))>>),
    Module(<<ExprStmt(Call(Attr(Id("obj"), "m"), Args(<<Id("a"), Id("b")>>)))>>),
    Module(<<ClassDef("A", <<ExprStmt(Assign(Id("x"), IntLit("1")))>>)>>),
    Module(<<Nd("function_definition",
                <<Tok("def"), Id("g"), Params(<<Id("a"), Err(<<Tok("$"), Id("e")>>)>>),
                  Tok(":"), Block(<<ExprStmt(Id("x"))>>)>>,
                <<"", "name", "parameters", "", "body">>)>>),
    Module(<<ExprStmt(Id("x")), ExprStmt(Nd("not_operator", <<Tok("not")>>, <<"">>))>>)
}

----------------------------------------------------------------------------
(* Specifications *)

Step(r) ==
    \/ AllocRoot(r)
    \/ NewSymbol(r)
    \/ AssignGuid(r)
    \/ WriteFields(r)
    \/ WriteCaller(r)
    \/ WriteChilds(r)
    \/ PushSymbol(r)
    \/ PanicStep(r)
    \/ Finish(r)

\* one extraction
Next == Start(1, Forest) \/ Step(1)
Spec == Init /\ [][Next]_vars

\* two extractions, each on its own PythonParser, interleaved step by step
NextConcurrent == \E r \in Runs : Start(r, ConcurrentForest) \/ Step(r)
SpecConcurrent == Init /\ [][NextConcurrent]_vars

\* PythonSkeletonFormatter.make_skeleton(symbol, text, guid_to_children, guid_to_info)
MakeSkeleton ==
    /\ CanCall
    /\ ret' = Append(ret, make_skeleton(call.symbol, call.guid_to_children,
                                        call.guid_to_info))
    /\ UNCHANGED <<status, tree, prog, pc, heap, result, root_guid, issued, next_guid, call>>

\* PythonSkeletonFormatter.get_declaration_with_comments(symbol, text, ..)
GetDeclarationWithComments ==
    /\ CanCall
    /\ ret' = Append(ret, get_declaration_with_comments(call.symbol,
                              call.guid_to_children, call.guid_to_info))
    /\ UNCHANGED <<status, tree, prog, pc, heap, result, root_guid, issued, next_guid, call>>

\* the formatter called on the maps of an index, up to MaxCalls times
SkeletonInit == Idle /\ call \in SkeletonCalls /\ ret = <<>>
NextSkeleton == MakeSkeleton \/ GetDeclarationWithComments
SpecSkeleton == SkeletonInit /\ [][NextSkeleton]_vars

\* create_code_completion_scratchpad(.., scratchpad_name, scratchpad_patch, ..)
CreateCodeCompletionScratchpad ==
    /\ CanCall
    /\ ret' = Append(ret, create_code_completion_scratchpad(call.scratchpad_name,
                               call.tokenizer_ok, call.patch_ok))
    /\ UNCHANGED <<status, tree, prog, pc, heap, result, root_guid, issued, next_guid, call>>

\* create_chat_scratchpad(.., scratchpad_name, scratchpad_patch, ..)
CreateChatScratchpad ==
    /\ CanCall
    /\ ret' = Append(ret, create_chat_scratchpad(call.scratchpad_name,
                               call.tokenizer_ok, call.patch_ok))
    /\ UNCHANGED <<status, tree, prog, pc, heap, result, root_guid, issued, next_guid, call>>

ScratchpadInit == Idle /\ call \in ScratchpadCalls /\ ret = <<>>
NextScratchpad == CreateCodeCompletionScratchpad \/ CreateChatScratchpad
SpecScratchpad == ScratchpadInit /\ [][NextScratchpad]_vars

----------------------------------------------------------------------------
(* What a run has returned *)

\* the symbols of the list of run r, in list order
Symbols(r) == [i \in 1..Len(result[r]) |-> heap[r][result[r][i]]]

\* parse() of run r has returned its list
Returned(r) == status[r] = "done"

\* the step of run r's program that performs `ev` on symbol object k
StepOf(r, ev, k) ==
    CHOOSE i \in 1..Len(prog[r]) : prog[r][i].ev = ev /\ prog[r][i].obj = k

\* the position in the list of the symbol carrying guid g: 0 for the root
\* scope of the run, -1 when no symbol of the list carries it
PositionOf(syms, root, g) ==
    IF g = root THEN 0
    ELSE IF \E i \in 1..Len(syms) : syms[i].guid = g
    THEN CHOOSE i \in 1..Len(syms) : syms[i].guid = g
    ELSE -1

\* a symbol list with every guid replaced by the list position it refers to
StructureOf(syms, root) ==
    [i \in 1..Len(syms) |->
        [f \in DOMAIN syms[i] |->
            CASE f = "guid" -> i
              [] f = "parent_guid" -> PositionOf(syms, root, syms[i].parent_guid[1])
              [] f = "childs_guid" ->
                   [k \in 1..Len(syms[i].childs_guid) |->
                       PositionOf(syms, root, syms[i].childs_guid[k])]
              [] f = "caller_guid" ->
                   IF syms[i].caller_guid = None THEN None
                   ELSE Some(PositionOf(syms, root, syms[i].caller_guid[1]))
              [] OTHER -> syms[i][f]]]

\* the effect of one step on an extraction that runs with a generator of its own
ExecStep(a, e) ==
    CASE e.ev = "root" -> [a EXCEPT !.root = get_guid(a.n), !.n = @ + 1]
      [] e.ev = "new" ->
           [a EXCEPT !.heap = Append(@, [e.sym EXCEPT !.parent_guid =
                                           Some(HolderGuid(a.heap, a.root, e.pg))])]
      [] e.ev = "guid" -> [a EXCEPT !.heap[e.obj].guid = get_guid(a.n), !.n = @ + 1]
      [] e.ev = "set" -> [a EXCEPT !.heap[e.obj] = Upd(@, e.upd)]
      [] e.ev = "caller" ->
           [a EXCEPT !.heap[e.obj].caller_guid = CallerGuid(a.heap, e.last)]
      [] e.ev = "childs" ->
           [a EXCEPT !.heap[e.obj].childs_guid = ChildsGuid(a.heap, e.obj, e.symbols)]
      [] e.ev = "push" -> [a EXCEPT !.result = Append(@, e.obj)]
      [] OTHER -> a

RECURSIVE Replay(_, _, _)
Replay(evs, i, a) ==
    IF i > Len(evs) THEN a ELSE Replay(evs, i + 1, ExecStep(a, evs[i]))

StructureOfRun(a) ==
    StructureOf([i \in 1..Len(a.result) |-> a.heap[a.result[i]]], a.root)

\* the structure parse returns for tree t when nothing else runs
AloneStructure(t) ==
    StructureOfRun(Replay(parse(t).evs, 1,
                          [heap |-> <<>>, result |-> <<>>, root |-> NilGuid, n |-> 1]))

\* the nodes of a subtree, as paths from the root of the tree
RECURSIVE PathsOf(_, _)
PathsOf(n, p) ==
    {p} \cup UNION {PathsOf(n.ch[i], Append(p, i)) : i \in 1..Len(n.ch)}

\* node q lies in the subtree of node p
Within(p, q) == Len(p) <= Len(q) /\ SubSeq(q, 1, Len(p)) = p

\* node q lies in the subtree of some ERROR node
InsideError(t, q) ==
    \E e \in PathsOf(t, <<>>) : Kind(t, e) = "ERROR" /\ Within(e, q)

----------------------------------------------------------------------------
(* Identity and ownership *)

\* C1: in the list a run returns, no two symbols carry the same guid.
C1_GuidsDistinct ==
    \A r \in Runs : Returned(r) =>
        \A i, j \in 1..Len(result[r]) :
            i # j => Symbols(r)[i].guid # Symbols(r)[j].guid

\* a returned list holding a function with symbols of its own
C1_Witness ==
    \E r \in Runs :
        /\ Returned(r)
        /\ Len(result[r]) >= 3
        /\ \E i \in 1..Len(result[r]) :
              /\ Symbols(r)[i].kind = "FunctionDeclaration"
              /\ Symbols(r)[i].childs_guid # <<>>

\* C2: every returned symbol that is not in the root scope has as
\* parent_guid the guid of another returned symbol, and that owner received
\* its guid before the symbol was created.
C2_ParentInResult ==
    \A r \in Runs : Returned(r) =>
        \A i \in 1..Len(result[r]) :
            Symbols(r)[i].parent_guid # Some(root_guid[r]) =>
                \E j \in 1..Len(result[r]) :
                    /\ j # i
                    /\ Some(Symbols(r)[j].guid) = Symbols(r)[i].parent_guid
                    /\ StepOf(r, "guid", result[r][j]) < StepOf(r, "new", result[r][i])

\* C3: the childs_guid of every returned symbol is exactly the set of the
\* guids of the returned symbols whose parent_guid is its guid.
C3_ChildsExact ==
    \A r \in Runs : Returned(r) =>
        \A i \in 1..Len(result[r]) :
            {Symbols(r)[i].childs_guid[k] : k \in 1..Len(Symbols(r)[i].childs_guid)}
            = {Symbols(r)[j].guid : j \in
                  {j \in 1..Len(result[r]) :
                      Symbols(r)[j].parent_guid = Some(Symbols(r)[i].guid)}}

\* a returned list where a symbol has two children or more, one of which
\* has a child of its own
C3_Witness ==
    \E r \in Runs :
        /\ Returned(r)
        /\ \E i, j, k \in 1..Len(result[r]) :
              /\ Len(Symbols(r)[i].childs_guid) >= 2
              /\ Symbols(r)[j].parent_guid = Some(Symbols(r)[i].guid)
              /\ Symbols(r)[k].parent_guid = Some(Symbols(r)[j].guid)

----------------------------------------------------------------------------
(* Malformed input *)

\* C4: parse never panics, whatever the tree.
C4_NeverPanics == \A r \in Runs : status[r] # "panicked"

\* C5: for a function definition whose body holds an ERROR node, the list
\* has the function's declaration with is_error unset and, for every
\* identifier inside the ERROR node that is no keyword, a usage with is_error
\* set; a symbol has is_error set exactly when it comes from inside an ERROR node.
C5_ErrorUsages ==
    \A r \in Runs : Returned(r) =>
        /\ \A f \in PathsOf(tree[r], <<>>) :
              \A e \in PathsOf(tree[r], <<>>) :
                 ( /\ Kind(tree[r], f) = "function_definition"
                   /\ ChildByFieldName(tree[r], f, "body") # NoNode
                   /\ ChildByFieldName(tree[r], f, "name") # NoNode
                   /\ Kind(tree[r], e) = "ERROR"
                   /\ Within(ChildByFieldName(tree[r], f, "body"), e) )
                 =>
                 /\ \E i \in 1..Len(result[r]) :
                       /\ Symbols(r)[i].kind = "FunctionDeclaration"
                       /\ Symbols(r)[i].name =
                              TextStr(tree[r], ChildByFieldName(tree[r], f, "name"))
                       /\ ~Symbols(r)[i].is_error
                 /\ \A q \in PathsOf(tree[r], <<>>) :
                       ( /\ Within(e, q)
                         /\ Kind(tree[r], q) = "identifier"
                         /\ TextStr(tree[r], q) \notin PYTHON_KEYWORDS )
                       => \E i \in 1..Len(result[r]) :
                             /\ Symbols(r)[i].kind = "VariableUsage"
                             /\ Symbols(r)[i].name = TextStr(tree[r], q)
                             /\ Symbols(r)[i].is_error
        /\ \A i \in 1..Len(result[r]) :
              \E q \in PathsOf(tree[r], <<>>) :
                 /\ Range(tree[r], q) = Symbols(r)[i].full_range
                 /\ Symbols(r)[i].is_error <=> InsideError(tree[r], q)

----------------------------------------------------------------------------
(* Repeated and concurrent extraction *)

C7_RunsIsolated ==
    \A r \in Runs : Returned(r) =>
        /\ StructureOf(Symbols(r), root_guid[r]) = AloneStructure(tree[r])
        /\ \A r2 \in Runs \ {r} :
              \A i \in 1..Len(result[r]) : \A j \in 1..Len(result[r2]) :
                 Symbols(r)[i].guid # Symbols(r2)[j].guid
        /\ \A i \in 1..Len(result[r]) :
              /\ Symbols(r)[i].parent_guid[1] \in issued[r]
              /\ \A k \in 1..Len(Symbols(r)[i].childs_guid) :
                    Symbols(r)[i].childs_guid[k] \in issued[r]

----------------------------------------------------------------------------
(* Writes to symbols *)

\* the symbol objects of run r that are in its list or whose childs_guid
\* has been computed
Finalized(r) ==
    {result[r][i] : i \in 1..Len(result[r])}
    \cup {prog[r][i].obj : i \in {i \in 1..pc[r] : prog[r][i].ev = "childs"}}

\* C8: once a symbol is in the list (for a class, function or call: once
\* its childs_guid is computed), no step writes any of its fields.
C8_NoWriteAfterAppend ==
    [][\A r \in Runs : \A k \in Finalized(r) : heap'[r][k] = heap[r][k]]_vars

\* a field of a symbol under construction has just been written while
\* other symbols are already in the list
C8_Witness ==
    \E r \in Runs :
        /\ result[r] # <<>>
        /\ pc[r] >= 1
        /\ prog[r][pc[r]].ev \in {"set", "caller", "childs"}
        /\ \E i \in 1..Len(result[r]) : Symbols(r)[i].childs_guid # <<>>

----------------------------------------------------------------------------
(* Imports *)

\* System for a first path component of PYTHON_MODULES, UserModule for a
\* first component "." or "..", Unknown otherwise
ImportTypeOf(path_components) ==
    IF path_components # <<>> /\ path_components[1] \in PYTHON_MODULES THEN "System"
    ELSE IF path_components # <<>> /\ path_components[1] \in {".", ".."}
    THEN "UserModule"
    ELSE "Unknown"

\* C9: every returned ImportDeclaration has the import_type its first path
\* component calls for, whatever the form of the import.
C9_ImportType ==
    \A r \in Runs : Returned(r) =>
        \A i \in 1..Len(result[r]) :
            Symbols(r)[i].kind = "ImportDeclaration" =>
                Symbols(r)[i].import_type = ImportTypeOf(Symbols(r)[i].path_components)

\* the number of dots the text of a relative module name starts with
RECURSIVE LeadingDots(_)
LeadingDots(toks) ==
    IF toks # <<>> /\ Head(toks) = "." THEN 1 + LeadingDots(Tail(toks)) ELSE 0

\* the names an import statement imports, as path segments
ImportedNames(t, stmt) ==
    {ImportPath(t, n) : n \in
        {ChildrenByFieldName(t, stmt, "name")[k] :
            k \in 1..Len(ChildrenByFieldName(t, stmt, "name"))}}

\* C10: the ImportDeclarations of a relative import with one leading dot
\* are UserModule with "." as first path component; with two leading dots the
\* path components are "..", the remaining module segments, then the segments
\* of the imported name.
C10_RelativeImport ==
    \A r \in Runs : Returned(r) =>
        \A stmt \in PathsOf(tree[r], <<>>) :
            ( /\ Kind(tree[r], stmt) = "import_from_statement"
              /\ ChildByFieldName(tree[r], stmt, "module_name") # NoNode
              /\ Kind(tree[r], ChildByFieldName(tree[r], stmt, "module_name"))
                     = "relative_import" )
            =>
            \A i \in 1..Len(result[r]) :
                ( /\ Symbols(r)[i].kind = "ImportDeclaration"
                  /\ Symbols(r)[i].full_range = Range(tree[r], stmt) )
                =>
                /\ LeadingDots(Text(tree[r],
                       ChildByFieldName(tree[r], stmt, "module_name"))) = 1
                   => /\ Symbols(r)[i].import_type = "UserModule"
                      /\ Symbols(r)[i].path_components # <<>>
                      /\ Symbols(r)[i].path_components[1] = "."
                /\ LeadingDots(Text(tree[r],
                       ChildByFieldName(tree[r], stmt, "module_name"))) = 2
                   => \E name \in ImportedNames(tree[r], stmt) \cup {<<>>} :
                         Symbols(r)[i].path_components =
                            <<"..">>
                            \o NonEmpty(SplitDots(SliceFrom(Text(tree[r],
                                  ChildByFieldName(tree[r], stmt, "module_name")), 2)))
                            \o name

----------------------------------------------------------------------------
(* Destructuring assignments *)

\* the nodes of kind `kind` in tree t
NodesOfKind(t, kind) == {p \in PathsOf(t, <<>>) : Kind(t, p) = kind}

\* the brackets and separators of a pattern or of a sequence expression
Punctuation == {"(", ")", "[", "]", ","}

\* the elements of a pattern or of a sequence expression, in order
ElementsOf(t, n) ==
    SelectSeq([i \in 1..ChildCount(t, n) |-> Child(t, n, i - 1)],
              LAMBDA c : Kind(t, c) \notin Punctuation)

\* the expressions a right-hand side is a sequence of
SequenceKinds == {"expression_list", "tuple", "list"}
RightSequence(t, right) ==
    IF Kind(t, right) \in SequenceKinds THEN ElementsOf(t, right) ELSE <<right>>

\* the assignments of tree t whose target is a pattern of plain names
Destructurings(t) ==
    {p \in NodesOfKind(t, "assignment") :
        /\ ChildByFieldName(t, p, "left") # NoNode
        /\ ChildByFieldName(t, p, "right") # NoNode
        /\ Kind(t, ChildByFieldName(t, p, "left"))
              \in {"pattern_list", "tuple_pattern", "list_pattern"}
        /\ \A j \in 1..Len(ElementsOf(t, ChildByFieldName(t, p, "left"))) :
              Kind(t, ElementsOf(t, ChildByFieldName(t, p, "left"))[j]) = "identifier"}

\* the right-hand node whose text the i-th name of destructuring p infers from
InferredFrom(t, p, i) ==
    LET left == ChildByFieldName(t, p, "left")
        right == ChildByFieldName(t, p, "right")
    IN IF Len(RightSequence(t, right)) = Len(ElementsOf(t, left))
       THEN RightSequence(t, right)[i]
       ELSE right

\* run r returned a definition of `name` made by assignment p
DefinitionsOf(r, p, name) ==
    {k \in 1..Len(result[r]) :
        /\ Symbols(r)[k].kind \in {"VariableDefinition", "ClassFieldDeclaration"}
        /\ Symbols(r)[k].name = name
        /\ Symbols(r)[k].full_range = Range(tree[r], p)}

\* C11: in a destructuring assignment of n names, the i-th name infers from
\* the i-th element of a right-hand sequence of exactly n elements, and from
\* the whole right-hand expression otherwise (a single call in particular)
C11_Destructuring ==
    \A r \in Runs : Returned(r) =>
        \A p \in Destructurings(tree[r]) :
            \A i \in 1..Len(ElementsOf(tree[r], ChildByFieldName(tree[r], p, "left"))) :
                LET name == TextStr(tree[r],
                               ElementsOf(tree[r], ChildByFieldName(tree[r], p, "left"))[i])
                IN /\ DefinitionsOf(r, p, name) # {}
                   /\ \A k \in DefinitionsOf(r, p, name) :
                         Symbols(r)[k].type_.inference_info
                            = Some(TextStr(tree[r], InferredFrom(tree[r], p, i)))

----------------------------------------------------------------------------
(* Attribute accesses *)

\* the positions of the symbols of run r whose full_range lies within node p
SymbolsWithin(r, p) ==
    {k \in 1..Len(result[r]) :
        /\ Symbols(r)[k].full_range[1] >= StartByte(tree[r], p)
        /\ Symbols(r)[k].full_range[2] <= EndByte(tree[r], p)}

\* node p stands in a type annotation, which parse_type reads
InsideType(t, p) ==
    \E q \in NodesOfKind(t, "type") : Within(q, p)

\* the attribute nodes of tree t that parse_usages is given: neither the
\* callee of a call nor part of a broken region or of a type annotation
AttributeUsages(t) ==
    {p \in NodesOfKind(t, "attribute") :
        /\ ~InsideError(t, p)
        /\ ~InsideType(t, p)
        /\ ~(Kind(t, Parent(p)) = "call" /\ ChildByFieldName(t, Parent(p), "function") = p)
        /\ ChildByFieldName(t, p, "object") # NoNode
        /\ ChildByFieldName(t, p, "attribute") # NoNode}

\* symbol s is the usage of the attribute name of node p
IsFieldUsage(t, p, s) ==
    /\ s.kind = "VariableUsage"
    /\ s.name = TextStr(t, ChildByFieldName(t, p, "attribute"))
    /\ s.full_range = Range(t, p)

\* C12: `obj.field` with an identifier object yields exactly the usage of
\* `obj` followed by the usage of `field`, whose caller_guid is the
\* parent_guid of the `obj` usage; when the object yields no symbol, the
\* usage of `field` is yielded alone, without caller_guid
C12_AttributeUsage ==
    \A r \in Runs : Returned(r) =>
        \A p \in AttributeUsages(tree[r]) :
            LET object == ChildByFieldName(tree[r], p, "object")
            IN /\ Kind(tree[r], object) = "identifier" =>
                    \E k \in 1..(Len(result[r]) - 1) :
                        /\ SymbolsWithin(r, p) = {k, k + 1}
                        /\ Symbols(r)[k].kind = "VariableUsage"
                        /\ Symbols(r)[k].name = TextStr(tree[r], object)
                        /\ Symbols(r)[k].full_range = Range(tree[r], object)
                        /\ IsFieldUsage(tree[r], p, Symbols(r)[k + 1])
                        /\ Symbols(r)[k + 1].caller_guid # None
                        /\ Symbols(r)[k + 1].caller_guid = Symbols(r)[k].parent_guid
               /\ SymbolsWithin(r, object) = {} =>
                    \E k \in 1..Len(result[r]) :
                        /\ SymbolsWithin(r, p) = {k}
                        /\ IsFieldUsage(tree[r], p, Symbols(r)[k])
                        /\ Symbols(r)[k].caller_guid = None

C12_Witness ==
    \E r \in Runs :
        /\ Returned(r)
        /\ \E p \in AttributeUsages(tree[r]) :
              /\ Kind(tree[r], ChildByFieldName(tree[r], p, "object")) = "identifier"
              /\ Cardinality(SymbolsWithin(r, p)) = 2
              /\ \E k \in SymbolsWithin(r, p) : Symbols(r)[k].caller_guid # None

----------------------------------------------------------------------------
(* Skeletons *)

\* the calls of `op` that have returned, as positions of ret
ReturnsOf(op) == {i \in 1..Len(ret) : ret[i].op = op /\ ~ret[i].panic}

\* the list of children the rendered symbol is given, if it is given one
HasChildList == call # <<>> /\ call.symbol.guid \in DOMAIN call.guid_to_children
ChildList == call.guid_to_children[call.symbol.guid]

\* the positions of ChildList whose symbol the index knows
KnownChildren == {i \in 1..Len(ChildList) : ChildList[i] \in DOMAIN call.guid_to_info}
ChildAt(i) == call.guid_to_info[ChildList[i]]

\* the number of whitespace characters a line starts with
Indentation(line) ==
    CHOOSE k \in 0..Len(line) :
        /\ \A i \in 1..k : line[i] \in Whitespace
        /\ k = Len(line) \/ line[k + 1] \notin Whitespace

\* a line without the whitespace it starts with
Unindented(line) == SubSeq(line, Indentation(line) + 1, Len(line))

\* the lines a child contributes to the skeleton of its parent
SkeletonLinesOf(child) ==
    CASE child.symbol_type = "FunctionDeclaration" ->
           [j \in 1..Len(Lines(child.declaration_content)) |->
               <<" ", " ">> \o Unindented(Lines(child.declaration_content)[j])]
           \o << <<" ", " ", " ", " ", ".", ".", ".">> >>
      [] child.symbol_type = "ClassFieldDeclaration" ->
           SplitNewline(<<" ", " ">> \o child.content)
      [] OTHER -> <<>>

\* the lines the children from position i on contribute, in list order
RECURSIVE SkeletonLinesFrom(_)
SkeletonLinesFrom(i) ==
    IF i > Len(ChildList) THEN <<>>
    ELSE SkeletonLinesOf(ChildAt(i)) \o SkeletonLinesFrom(i + 1)

\* the lines of a text that are a placeholder
PlaceholderLines(text) ==
    {j \in 1..Len(SplitNewline(text)) : Unindented(SplitNewline(text)[j]) = <<".", ".", ".">>}

\* C13: for a symbol with a non-empty list of children (each known to the
\* index), make_skeleton returns the declaration header, then per child in
\* list order: for a function its declaration lines, unindented and indented
\* by two spaces, and one placeholder line; for a field its content indented
\* by two spaces; nothing for any other kind.  There are as many placeholder
\* lines as function children.
C13_SkeletonOfChildren ==
    (HasChildList /\ ChildList # <<>> /\ KnownChildren = 1..Len(ChildList)) =>
        \A i \in 1..Len(ret) : ret[i].op = "make_skeleton" =>
            /\ ~ret[i].panic
            /\ SplitNewline(ret[i].value)
                  = SplitNewline(call.symbol.declaration_content)
                    \o SkeletonLinesFrom(1) \o << <<>> >>
            /\ Cardinality(PlaceholderLines(ret[i].value))
                  = Cardinality({k \in 1..Len(ChildList) :
                                    ChildAt(k).symbol_type = "FunctionDeclaration"})

C13_Witness ==
    /\ HasChildList
    /\ KnownChildren = 1..Len(ChildList)
    /\ \E a, b, c \in 1..Len(ChildList) :
          /\ ChildAt(a).symbol_type = "FunctionDeclaration"
          /\ ChildAt(b).symbol_type = "ClassFieldDeclaration"
          /\ ChildAt(c).symbol_type = "CommentDefinition"
    /\ ReturnsOf("make_skeleton") # {}

\* C14: for a symbol with an empty list of children, make_skeleton returns
\* the declaration header followed by the line `  ...`; a second call with
\* the same arguments returns the same text, and no call changes its arguments
C14_EmptySkeleton ==
    [][/\ call' = call
       /\ (HasChildList /\ ChildList = <<>>) =>
             \A i \in 1..Len(ret') : ret'[i].op = "make_skeleton" =>
                 /\ ~ret'[i].panic
                 /\ ret'[i].value
                       = call.symbol.declaration_content
                         \o <<"\n", " ", " ", ".", ".", ".">>
                 /\ \A j \in 1..Len(ret') : ret'[j].op = "make_skeleton" =>
                       ret'[j].value = ret'[i].value]_vars

C14_Witness ==
    /\ HasChildList
    /\ ChildList = <<>>
    /\ Len(ret) = 2
    /\ ReturnsOf("make_skeleton") = {1, 2}

----------------------------------------------------------------------------
(* Declarations with their leading comments *)

\* child i starts before child j: by start byte, then by list position
StartsBefore(i, j) ==
    \/ ChildAt(i).start_byte < ChildAt(j).start_byte
    \/ ChildAt(i).start_byte = ChildAt(j).start_byte /\ i < j

\* the known children that are comments and have only comments before them
LeadingRun ==
    {j \in KnownChildren :
        \A i \in KnownChildren :
            (i = j \/ StartsBefore(i, j)) => ChildAt(i).symbol_type = "CommentDefinition"}

\* the leading run from its first comment to its last
RunOrder ==
    CHOOSE s \in [1..Cardinality(LeadingRun) -> LeadingRun] :
        \A a, b \in 1..Cardinality(LeadingRun) : a < b => StartsBefore(s[a], s[b])

\* the lines of the comments of the leading run, from its k-th comment on
RECURSIVE RunLinesFrom(_)
RunLinesFrom(k) ==
    IF k > Cardinality(LeadingRun) THEN <<>>
    ELSE SplitNewline(ChildAt(RunOrder[k]).content) \o RunLinesFrom(k + 1)

\* the rendered symbol is no function and has a comment before its other children
HasLeadingComments ==
    /\ HasChildList
    /\ call.symbol.symbol_type # "FunctionDeclaration"
    /\ LeadingRun # {}

\* the whitespace a line starts with
LeadingWhitespace(line) == SubSeq(line, 1, Indentation(line))

\* C15: for a symbol that is no function, get_declaration_with_comments
\* returns, between the header lines and the last line, the text of exactly
\* the comments that come before every other known child in start-byte
\* order, with the rows (start row of the symbol, end row of the last such
\* comment); without such a comment, or without an entry in the children
\* map, it returns the empty text with rows (0, 0)
C15_LeadingComments ==
    (call # <<>> /\ call.symbol.symbol_type # "FunctionDeclaration") =>
        \A i \in 1..Len(ret) : ret[i].op = "get_declaration_with_comments" =>
            /\ ~ret[i].panic
            /\ IF ~HasLeadingComments
               THEN ret[i].value = [text |-> <<>>, rows |-> <<0, 0>>]
               ELSE /\ ret[i].value.rows
                         = <<call.symbol.start_row,
                             ChildAt(RunOrder[Cardinality(LeadingRun)]).end_row>>
                    /\ Len(SplitNewline(ret[i].value.text))
                         = Len(SplitNewline(call.symbol.declaration_content))
                           + Len(RunLinesFrom(1)) + 1
                    /\ SubSeq(SplitNewline(ret[i].value.text),
                              Len(SplitNewline(call.symbol.declaration_content)) + 1,
                              Len(SplitNewline(ret[i].value.text)) - 1)
                         = RunLinesFrom(1)

C15_Witness ==
    /\ HasLeadingComments
    /\ Cardinality(LeadingRun) = 2
    /\ {1, 2} \subseteq KnownChildren
    /\ StartsBefore(2, 1)
    /\ \E k \in KnownChildren : ChildAt(k).symbol_type # "CommentDefinition"
    /\ ReturnsOf("get_declaration_with_comments") # {}

\* C16 as stated: the returned text of a symbol with leading comments has
\* exactly one placeholder line, indented by the whitespace that the first
\* line of the declaration header starts with
C16_PlaceholderAtHeader ==
    HasLeadingComments =>
        \A i \in ReturnsOf("get_declaration_with_comments") :
            /\ Cardinality(PlaceholderLines(ret[i].value.text)) = 1
            /\ \A j \in PlaceholderLines(ret[i].value.text) :
                  LeadingWhitespace(SplitNewline(ret[i].value.text)[j])
                     = LeadingWhitespace(SplitNewline(call.symbol.declaration_content)[1])

\* C16, amended: the returned text of a symbol with leading comments has
\* exactly one placeholder line, indented four spaces deeper than the first
\* line of the returned text (the first header line, tabs as four spaces)
C16_PlaceholderBelowHeader ==
    HasLeadingComments =>
        \A i \in ReturnsOf("get_declaration_with_comments") :
            /\ Cardinality(PlaceholderLines(ret[i].value.text)) = 1
            /\ \A j \in PlaceholderLines(ret[i].value.text) :
                  LeadingWhitespace(SplitNewline(ret[i].value.text)[j])
                     = LeadingWhitespace(SplitNewline(ret[i].value.text)[1])
                       \o <<" ", " ", " ", " ">>

C16_Witness ==
    /\ HasLeadingComments
    /\ Indentation(call.symbol.declaration_content) > 0
    /\ \E i \in ReturnsOf("get_declaration_with_comments") :
          PlaceholderLines(ret[i].value.text) # {}

----------------------------------------------------------------------------
(* Order of the returned list *)

\* the kinds of symbols that own other symbols
OwnerKinds == {"StructDeclaration", "FunctionDeclaration", "FunctionCall"}

\* range a lies within range b and is not b
StrictlyWithin(a, b) == a[1] >= b[1] /\ a[2] <= b[2] /\ a # b

\* C17: in the returned list every class, function (or lambda) and call
\* symbol comes after every symbol of its childs_guid and after every symbol
\* made from a node of its subtree
C17_ChildFirst ==
    \A r \in Runs : Returned(r) =>
        \A k \in 1..Len(result[r]) : Symbols(r)[k].kind \in OwnerKinds =>
            /\ \A c \in 1..Len(Symbols(r)[k].childs_guid) :
                  \E j \in 1..(k - 1) : Symbols(r)[j].guid = Symbols(r)[k].childs_guid[c]
            /\ \A j \in 1..Len(result[r]) :
                  StrictlyWithin(Symbols(r)[j].full_range, Symbols(r)[k].full_range)
                     => j < k

C17_Witness ==
    \E r \in Runs :
        /\ Returned(r)
        /\ \E k, j \in 1..Len(result[r]) :
              /\ Symbols(r)[k].kind = "StructDeclaration"
              /\ Symbols(r)[j].kind = "FunctionDeclaration"
              /\ Symbols(r)[j].parent_guid = Some(Symbols(r)[k].guid)
              /\ Symbols(r)[j].childs_guid # <<>>

\* C18: among the symbols of one returned list that share a parent_guid,
\* taken in list order, full_range.start_byte never decreases
C18_SiblingsByStartByte ==
    \A r \in Runs : Returned(r) =>
        \A j, k \in 1..Len(result[r]) :
            (j < k /\ Symbols(r)[j].parent_guid = Symbols(r)[k].parent_guid)
                => Symbols(r)[j].full_range[1] <= Symbols(r)[k].full_range[1]

----------------------------------------------------------------------------
(* Docstrings *)

\* node p of tree t is a bare expression statement's expression, the statement
\* standing directly inside a block or the module
BareStatement(t, p) ==
    /\ Len(p) >= 2
    /\ Kind(t, Parent(p)) = "expression_statement"
    /\ Kind(t, Parent(Parent(p))) \in {"module", "block"}

\* the list returned by run r holds a CommentDefinition made from node p
CommentFrom(r, p) ==
    \E k \in 1..Len(result[r]) :
        /\ Symbols(r)[k].kind = "CommentDefinition"
        /\ Symbols(r)[k].full_range = Range(tree[r], p)

\* C19: a string node yields a CommentDefinition if and only if it is a bare
\* expression statement directly inside a block or the module
C19_DocstringOnlyBare ==
    \A r \in Runs : Returned(r) =>
        \A p \in NodesOfKind(tree[r], "string") :
            CommentFrom(r, p) <=> BareStatement(tree[r], p)

----------------------------------------------------------------------------
(* Inference from the right-hand side *)

\* the assignments of tree t that bind one plain name, without a type hint
UntypedAssignments(t) ==
    {p \in NodesOfKind(t, "assignment") :
        /\ ChildByFieldName(t, p, "left") # NoNode
        /\ Kind(t, ChildByFieldName(t, p, "left")) = "identifier"
        /\ TextStr(t, ChildByFieldName(t, p, "left")) \notin SPECIAL_SYMBOLS \cup {"self"}
        /\ ChildByFieldName(t, p, "type") = NoNode
        /\ ChildByFieldName(t, p, "right") # NoNode}

\* C20: the definition created for an assignment to a plain name without a
\* type hint, a VariableDefinition or a ClassFieldDeclaration, has
\* inference_info equal to the right-hand text, and is_pod true exactly when
\* the right-hand node is a literal
C20_InferenceInfo ==
    \A r \in Runs : Returned(r) =>
        \A p \in UntypedAssignments(tree[r]) :
            \A k \in DefinitionsOf(r, p, TextStr(tree[r], ChildByFieldName(tree[r], p, "left"))) :
                /\ Symbols(r)[k].type_.inference_info
                      = Some(TextStr(tree[r], ChildByFieldName(tree[r], p, "right")))
                /\ Symbols(r)[k].type_.is_pod
                      = (Kind(tree[r], ChildByFieldName(tree[r], p, "right")) \in LiteralKinds)

----------------------------------------------------------------------------
(* Starred targets *)

\* the starred targets of tree t that stand in the pattern of an assignment
\* with a right-hand side, each with its assignment: <<assignment, name node>>
StarredTargets(t) ==
    {<<as[1], Child(t, as[2], 1)>> :
        as \in {x \in NodesOfKind(t, "assignment") \X NodesOfKind(t, "list_splat_pattern") :
                  /\ ChildByFieldName(t, x[1], "left") # NoNode
                  /\ ChildByFieldName(t, x[1], "right") # NoNode
                  /\ Within(ChildByFieldName(t, x[1], "left"), x[2])
                  /\ Kind(t, Child(t, x[2], 1)) = "identifier"}}

\* C21: the name of a starred target of a destructuring assignment is bound
\* like the other targets: the returned list holds a definition named after
\* it, and that definition infers from the right-hand side
C21_StarredTarget ==
    \A r \in Runs : Returned(r) =>
        \A an \in StarredTargets(tree[r]) :
            /\ DefinitionsOf(r, an[1], TextStr(tree[r], an[2])) # {}
            /\ \A k \in DefinitionsOf(r, an[1], TextStr(tree[r], an[2])) :
                  Symbols(r)[k].kind = "VariableDefinition" =>
                      Symbols(r)[k].type_.inference_info # None

----------------------------------------------------------------------------
(* Class fields and variables *)

\* the assignments and for loops of tree t whose target is a plain name
NameBindings(t) ==
    {p \in NodesOfKind(t, "assignment") \cup NodesOfKind(t, "for_statement") :
        /\ ChildByFieldName(t, p, "left") # NoNode
        /\ Kind(t, ChildByFieldName(t, p, "left")) = "identifier"}

\* the nearest class or function definition around node p, NoNode if none
RECURSIVE ScopeOf(_, _)
ScopeOf(t, p) ==
    IF p = <<>> THEN NoNode
    ELSE IF Kind(t, Parent(p)) \in {"class_definition", "function_definition"}
    THEN Parent(p)
    ELSE ScopeOf(t, Parent(p))

\* g is the guid of the scope around node p: of the symbol made for the
\* enclosing class or function, of the root when there is none
IsScopeGuid(r, p, g) ==
    IF ScopeOf(tree[r], p) = NoNode THEN g = root_guid[r]
    ELSE \E k \in 1..Len(result[r]) :
            /\ Symbols(r)[k].guid = g
            /\ Symbols(r)[k].kind \in {"StructDeclaration", "FunctionDeclaration"}
            /\ Symbols(r)[k].name
                  = TextStr(tree[r], ChildByFieldName(tree[r], ScopeOf(tree[r], p), "name"))

\* the nearest class or function definition around node p is a class
InClass(t, p) ==
    ScopeOf(t, p) # NoNode /\ Kind(t, ScopeOf(t, p)) = "class_definition"

\* the name a binding binds
TargetName(t, p) == TextStr(t, ChildByFieldName(t, p, "left"))

\* binding p of run r yields exactly one definition named after its target,
\* a ClassFieldDeclaration in a class and a VariableDefinition otherwise,
\* whose parent_guid is the guid of the enclosing scope
OneDefinition(r, p) ==
    /\ Cardinality(DefinitionsOf(r, p, TargetName(tree[r], p))) = 1
    /\ \A k \in DefinitionsOf(r, p, TargetName(tree[r], p)) :
          /\ Symbols(r)[k].kind = (IF InClass(tree[r], p) THEN "ClassFieldDeclaration"
                                   ELSE "VariableDefinition")
          /\ Symbols(r)[k].parent_guid # None
          /\ IsScopeGuid(r, p, Symbols(r)[k].parent_guid[1])

----------------------------------------------------------------------------
(* Calls *)

\* the call nodes of tree t that symbol k of run r, a FunctionCall, was made from
CallNodesOf(r, k) ==
    {c \in NodesOfKind(tree[r], "call") : Range(tree[r], c) = Symbols(r)[k].full_range}

\* the arguments of call c that are no punctuation
ArgumentsOf(t, c) ==
    {a \in PathsOf(t, <<>>) :
        /\ Len(a) >= 1
        /\ Parent(a) = ChildByFieldName(t, c, "arguments")
        /\ Kind(t, a) \notin Punctuation}

\* run r returned a usage made from identifier node n with parent_guid pg
UsageFrom(r, n, pg) ==
    \E j \in 1..Len(result[r]) :
        /\ Symbols(r)[j].kind = "VariableUsage"
        /\ Symbols(r)[j].full_range = Range(tree[r], n)
        /\ Symbols(r)[j].name = TextStr(tree[r], n)
        /\ Symbols(r)[j].parent_guid = pg

\* the name of call c: the callee text of a bare name, the last segment of
\* an attribute access
CalleeNamed(t, c, name) ==
    LET function_node == ChildByFieldName(t, c, "function")
    IN CASE Kind(t, function_node) = "identifier" -> name = TextStr(t, function_node)
         [] Kind(t, function_node) = "attribute" ->
              name = TextStr(t, ChildByFieldName(t, function_node, "attribute"))
         [] OTHER -> TRUE

\* the object of the callee of call c is a plain name, used under pg, and pg
\* is the caller_guid of the call
CalleeObjectUsed(r, c, k) ==
    LET t == tree[r]
        function_node == ChildByFieldName(t, c, "function")
    IN (/\ Kind(t, function_node) = "attribute"
        /\ Kind(t, ChildByFieldName(t, function_node, "object")) = "identifier")
       => /\ UsageFrom(r, ChildByFieldName(t, function_node, "object"),
                       Symbols(r)[k].parent_guid)
          /\ Symbols(r)[k].caller_guid = Symbols(r)[k].parent_guid

\* C23: a FunctionCall is named after its callee, every argument that is no
\* punctuation is walked with the call's guid as parent_guid, the callee's
\* object is walked with the call's own parent_guid, and that is the
\* caller_guid of the call
C23_CallExpression ==
    \A r \in Runs : Returned(r) =>
        \A k \in 1..Len(result[r]) : Symbols(r)[k].kind = "FunctionCall" =>
            \A c \in CallNodesOf(r, k) :
                /\ CalleeNamed(tree[r], c, Symbols(r)[k].name)
                /\ \A a \in ArgumentsOf(tree[r], c) :
                      Kind(tree[r], a) = "identifier"
                          => UsageFrom(r, a, Some(Symbols(r)[k].guid))
                /\ CalleeObjectUsed(r, c, k)

----------------------------------------------------------------------------
(* Parameters *)

\* the parameters with a declared type among the parameters of function f
TypedParameters(t, f) ==
    {q \in NodesOfKind(t, "typed_parameter") \cup NodesOfKind(t, "typed_default_parameter") :
        /\ Parent(q) = ChildByFieldName(t, f, "parameters")
        /\ ChildByFieldName(t, q, "type") # NoNode
        /\ Kind(t, IF Kind(t, q) = "typed_parameter" THEN Child(t, q, 0)
                   ELSE ChildByFieldName(t, q, "name")) = "identifier"}

\* the bare name of typed parameter q
BareName(t, q) ==
    TextStr(t, IF Kind(t, q) = "typed_parameter" THEN Child(t, q, 0)
               ELSE ChildByFieldName(t, q, "name"))

\* the descriptor of typed parameter q: its resolved type, with the text of
\* the default value as inference_info when there is one
DeclaredDescriptor(t, q) ==
    IF ChildByFieldName(t, q, "value") = NoNode
    THEN parse_type(t, ChildByFieldName(t, q, "type")).ty
    ELSE Some(Upd(parse_type(t, ChildByFieldName(t, q, "type")).ty[1],
                  [inference_info |-> Some(TextStr(t, ChildByFieldName(t, q, "value")))]))

\* the function definitions of run r's tree that symbol k was made from
FunctionNodesOf(r, k) ==
    {f \in NodesOfKind(tree[r], "function_definition") :
        /\ Range(tree[r], f) = Symbols(r)[k].full_range
        /\ ChildByFieldName(tree[r], f, "parameters") # NoNode}

\* C24: a parameter with a declared type, with or without a default value,
\* gives the function one argument whose name is the bare parameter name and
\* whose descriptor is the resolved declared type, the text of the default
\* value being its inference_info when there is one
C24_TypedParameter ==
    \A r \in Runs : Returned(r) =>
        \A k \in 1..Len(result[r]) : Symbols(r)[k].kind = "FunctionDeclaration" =>
            \A f \in FunctionNodesOf(r, k) :
                \A q \in TypedParameters(tree[r], f) :
                    ~parse_type(tree[r], ChildByFieldName(tree[r], q, "type")).panic
                    /\ parse_type(tree[r], ChildByFieldName(tree[r], q, "type")).ty # None
                    => \E i \in 1..Len(Symbols(r)[k].args) :
                          /\ Symbols(r)[k].args[i].name = BareName(tree[r], q)
                          /\ Symbols(r)[k].args[i].type_ = DeclaredDescriptor(tree[r], q)

----------------------------------------------------------------------------
(* Leading dots of relative imports *)

\* the relative imports of tree t
RelativeImports(t) ==
    {s \in NodesOfKind(t, "import_from_statement") :
        /\ ChildByFieldName(t, s, "module_name") # NoNode
        /\ Kind(t, ChildByFieldName(t, s, "module_name")) = "relative_import"}

\* the text of the module name of relative import s
ModuleText(t, s) == Text(t, ChildByFieldName(t, s, "module_name"))

\* relative imports a and b differ in the number of their leading dots only
DifferInDotsOnly(t, a, b) ==
    /\ LeadingDots(ModuleText(t, a)) # LeadingDots(ModuleText(t, b))
    /\ SliceFrom(ModuleText(t, a), LeadingDots(ModuleText(t, a)))
          = SliceFrom(ModuleText(t, b), LeadingDots(ModuleText(t, b)))
    /\ ImportedNames(t, a) = ImportedNames(t, b)

\* the path_components run r returned for import statement s
PathComponentsOf(r, s) ==
    {Symbols(r)[i].path_components :
        i \in {k \in 1..Len(result[r]) :
                 /\ Symbols(r)[k].kind = "ImportDeclaration"
                 /\ Symbols(r)[k].full_range = Range(tree[r], s)}}

\* C25: two relative imports that differ only in the number of their leading
\* dots get different path_components
C25_LeadingDotsKept ==
    \A r \in Runs : Returned(r) =>
        \A a, b \in RelativeImports(tree[r]) :
            DifferInDotsOnly(tree[r], a, b)
                => PathComponentsOf(r, a) \cap PathComponentsOf(r, b) = {}

----------------------------------------------------------------------------
(* Type descriptors *)

\* the node kinds parse_type resolves
ResolvedKinds ==
    {"type", "splat_type", "identifier", "generic_type", "attribute", "call"}
        \cup LiteralKinds

\* the node a type wrapper wraps
RECURSIVE Unwrapped(_, _)
Unwrapped(t, n) ==
    IF Kind(t, n) \in {"type", "splat_type"} /\ ChildCount(t, n) > 0
    THEN Unwrapped(t, Child(t, n, 0)) ELSE n

\* the node a descriptor comes from: the callee of a call, the wrapped node
\* of a wrapper
RECURSIVE OriginOf(_, _)
OriginOf(t, n) ==
    IF Kind(t, n) \in {"type", "splat_type"} /\ ChildCount(t, n) > 0
    THEN OriginOf(t, Child(t, n, 0))
    ELSE IF Kind(t, n) = "call" /\ ChildByFieldName(t, n, "function") # NoNode
    THEN OriginOf(t, ChildByFieldName(t, n, "function"))
    ELSE n

\* descriptor d (an Option) is what parse_type owes for call node c
CallDescriptor(t, c, d) ==
    /\ d # None
    /\ d[1].inference_info = Some(TextStr(t, c))
    /\ Kind(t, ChildByFieldName(t, c, "function")) \notin ResolvedKinds
          => d = Some([DefaultTypeDef EXCEPT !.inference_info = Some(TextStr(t, c))])
    /\ Kind(t, ChildByFieldName(t, c, "function")) = "identifier"
          => d = Some([DefaultTypeDef EXCEPT
                          !.name = Some(TextStr(t, ChildByFieldName(t, c, "function"))),
                          !.inference_info = Some(TextStr(t, c))])
    /\ Kind(t, ChildByFieldName(t, c, "function")) = "attribute"
          => d[1].name = Some(TextStr(t,
                 ChildByFieldName(t, ChildByFieldName(t, c, "function"), "attribute")))

\* descriptor d is what parse_type owes for type node n
DescriptorOwed(t, n, d) ==
    /\ Kind(t, Unwrapped(t, n)) \notin ResolvedKinds => d = None
    /\ Kind(t, Unwrapped(t, n)) \in ResolvedKinds => d # None
    /\ Kind(t, Unwrapped(t, n)) = "call" => CallDescriptor(t, Unwrapped(t, n), d)
    /\ (d # None /\ d[1].is_pod) => Kind(t, OriginOf(t, n)) \in LiteralKinds

\* the functions of run r's tree with a return type that symbol k was made from
ReturningNodesOf(r, k) ==
    {f \in FunctionNodesOf(r, k) : ChildByFieldName(tree[r], f, "return_type") # NoNode}

\* C26: parse_type gives no descriptor for a node outside the kinds it
\* resolves; for a call it gives the callee's descriptor, or the default one
\* when the callee has none, with the text of the whole call as
\* inference_info; is_pod is true only for a descriptor that comes from a literal
C26_ParseType ==
    \A r \in Runs : Returned(r) =>
        \A k \in 1..Len(result[r]) : Symbols(r)[k].kind = "FunctionDeclaration" =>
            \A f \in ReturningNodesOf(r, k) :
                DescriptorOwed(tree[r], ChildByFieldName(tree[r], f, "return_type"),
                               Symbols(r)[k].return_type)

\* the return type of a returned function was a call whose callee has no descriptor
C26_Witness ==
    \E r \in Runs :
        /\ Returned(r)
        /\ \E k \in 1..Len(result[r]) :
              /\ Symbols(r)[k].kind = "FunctionDeclaration"
              /\ \E f \in ReturningNodesOf(r, k) :
                    /\ Kind(tree[r], Unwrapped(tree[r],
                           ChildByFieldName(tree[r], f, "return_type"))) = "call"
                    /\ Symbols(r)[k].return_type # None
                    /\ Symbols(r)[k].return_type[1].name = None
                    /\ ~Symbols(r)[k].return_type[1].is_pod

----------------------------------------------------------------------------
(* caller_guid *)

\* C27: a returned symbol whose caller_guid was set carries its own
\* parent_guid there
C27_CallerIsParent ==
    \A r \in Runs : Returned(r) =>
        \A k \in 1..Len(result[r]) :
            Symbols(r)[k].caller_guid # None
                => Symbols(r)[k].caller_guid = Symbols(r)[k].parent_guid

\* a returned list holds a call, an attribute usage and an attribute usage of
\* the error-recovery extractor, each with its caller_guid set
C27_Witness ==
    \E r \in Runs :
        /\ Returned(r)
        /\ \E i, j, k \in 1..Len(result[r]) :
              /\ Symbols(r)[i].kind = "FunctionCall"
              /\ Symbols(r)[i].caller_guid # None
              /\ Symbols(r)[j].kind = "VariableUsage"
              /\ ~Symbols(r)[j].is_error
              /\ Symbols(r)[j].caller_guid # None
              /\ Symbols(r)[k].kind = "VariableUsage"
              /\ Symbols(r)[k].is_error
              /\ Symbols(r)[k].caller_guid # None

----------------------------------------------------------------------------
(* One walk per node *)

\* the usages run r returned for identifier node n
UsagesOf(r, n) ==
    {k \in 1..Len(result[r]) :
        /\ Symbols(r)[k].kind = "VariableUsage"
        /\ Symbols(r)[k].full_range = Range(tree[r], n)
        /\ Symbols(r)[k].name = TextStr(tree[r], n)}

\* C28: an identifier node of the tree yields at most one usage per extraction
C28_WalkedOnce ==
    \A r \in Runs : Returned(r) =>
        \A n \in NodesOfKind(tree[r], "identifier") :
            Cardinality(UsagesOf(r, n)) <= 1

----------------------------------------------------------------------------
(* Nested destructuring *)

PatternKinds == {"pattern_list", "tuple_pattern", "list_pattern"}

\* the positions of the pattern of assignment p that hold a sub-pattern of
\* plain names standing against a sequence of as many elements
MatchedSubPatterns(t, p) ==
    LET left == ChildByFieldName(t, p, "left")
        right == ChildByFieldName(t, p, "right")
    IN IF left = NoNode \/ right = NoNode \/ Kind(t, left) \notin PatternKinds
          \/ Len(ElementsOf(t, left)) # Len(RightSequence(t, right))
       THEN {}
       ELSE {i \in 1..Len(ElementsOf(t, left)) :
               /\ Kind(t, ElementsOf(t, left)[i]) \in PatternKinds
               /\ Kind(t, RightSequence(t, right)[i]) \in SequenceKinds
               /\ Len(ElementsOf(t, ElementsOf(t, left)[i]))
                     = Len(ElementsOf(t, RightSequence(t, right)[i]))
               /\ \A j \in 1..Len(ElementsOf(t, ElementsOf(t, left)[i])) :
                     Kind(t, ElementsOf(t, ElementsOf(t, left)[i])[j]) = "identifier"}

\* the j-th name of sub-pattern i of assignment p, and the element it stands against
SubName(t, p, i, j) == ElementsOf(t, ElementsOf(t, ChildByFieldName(t, p, "left"))[i])[j]
SubValue(t, p, i, j) ==
    ElementsOf(t, RightSequence(t, ChildByFieldName(t, p, "right"))[i])[j]

\* C29: a sub-pattern of a nested destructuring whose own left and right
\* counts are equal is paired positionally, whatever happened to the
\* sub-patterns before it
C29_PerPatternFallback ==
    \A r \in Runs : Returned(r) =>
        \A p \in NodesOfKind(tree[r], "assignment") :
            \A i \in MatchedSubPatterns(tree[r], p) :
                \A j \in 1..Len(ElementsOf(tree[r],
                                 ElementsOf(tree[r], ChildByFieldName(tree[r], p, "left"))[i])) :
                    \A k \in DefinitionsOf(r, p, TextStr(tree[r], SubName(tree[r], p, i, j))) :
                        Symbols(r)[k].type_.inference_info
                            = Some(TextStr(tree[r], SubValue(tree[r], p, i, j)))

----------------------------------------------------------------------------
(* Scratchpad factories *)

\* the names each factory has a scratchpad for
CompiledIn(op) ==
    IF op = "create_code_completion_scratchpad" THEN {"FIM-PSM", "FIM-SPM"}
    ELSE {"CHAT-GENERIC", "CHAT-LLAMA2", "PASSTHROUGH"}

\* message err names the scratchpad that was asked for
Names(err, scratchpad_name) == \E i \in 1..Len(err) : err[i] = scratchpad_name

Factories == {"create_code_completion_scratchpad", "create_chat_scratchpad"}

\* C30: a factory returns Ok only for the names it has a scratchpad for, and
\* only after the patch was applied with success; any other name yields an
\* Err that names the scratchpad, no scratchpad having been constructed
C30_ScratchpadFactory ==
    \A i \in 1..Len(ret) : ret[i].op \in Factories =>
        /\ ret[i].value.ok =>
              /\ call.scratchpad_name \in CompiledIn(ret[i].op)
              /\ call.patch_ok
              /\ ret[i].value.scratchpad[1].patched
        /\ call.scratchpad_name \notin CompiledIn(ret[i].op) =>
              /\ ~ret[i].value.ok
              /\ Names(ret[i].value.err, call.scratchpad_name)
              /\ ret[i].value.constructed = None
        /\ (ret[i].value.constructed # None /\ ~call.patch_ok) =>
              (~ret[i].value.ok /\ ret[i].value.err = PatchError)


====
